---------------------------- MODULE Spec2Model ----------------------------
(***************************************************************************)
(* Shared-notes API (Netlify function + blob store), token-based handler,  *)
(* and the two browser clients: the shared-only client (token map and      *)
(* cache in localStorage, requests with a timeout) and the local-fallback  *)
(* client (local notes in localStorage).  The clients are modelled against *)
(* a network that answers with any status and body, fails, or stays        *)
(* silent.                                                                 *)
(* The shared-only client is also run against the token-based handler, and *)
(* its page (the refresh timer and the click handlers) on top of its       *)
(* calls.  The path-based handler, the variant that keeps all notes under  *)
(* one key and takes the id from the URL, is modelled on its own store.    *)
(*                                                                         *)
(* The blob store holds one record per note under "note:<id>" and the      *)
(* recency index under "notes:index".  Every `await store.*` of the        *)
(* handler is one step of the request that executes it, so requests of     *)
(* different clients interleave between store operations exactly where the *)
(* code awaits.                                                            *)
(*                                                                         *)
(* A request is taken up in the step of its first store operation, or of   *)
(* its answer when it is answered without one: reading the body touches    *)
(* nothing shared.                                                         *)
(*                                                                         *)
(* Representation:                                                         *)
(*   - strings are sequences of one-character strings;                     *)
(*   - an optional value (JS null / undefined) is None == <<>>, a present  *)
(*     value x is Some(x) == <<x>>;                                        *)
(*   - ids and tokens are positive integers, 0 is the empty string "";     *)
(*   - the size limits keep their order (LIST_LIMIT < MAX_NOTES) but are   *)
(*     scaled down so that every limit is reached.                         *)
(***************************************************************************)
EXTENDS Integers, Sequences, FiniteSets, TLC

VARIABLES
    notes,      \* blob store: id -> note record, for the keys "note:<id>" present
    index,      \* blob store: value under "notes:index"
    now,        \* the value Date.now() returns
    made,       \* number of (id, token) pairs generated so far
    pc,         \* per client: where its request stands
    req,        \* per client: method and parsed body of the request in flight
    loc,        \* per client: the handler's local variables
    resp,       \* per client: the outcome of the finished request
    pre,        \* per client: the store as it was when the request arrived
                \* (recorded when requests are handled one at a time), and
                \* the ids whose DELETE had been answered ok by then
    gone,       \* ids whose DELETE with the right token was answered ok
    tokenOut,   \* token -> number of responses that carried it
    faults,     \* number of store operations that have failed
    posted      \* the note returned by the request before, if that was a POST
                \* answered 200 (recorded when requests are handled one at a time)

\* The shared-only client (one browser): its localStorage and its API calls
VARIABLES
    tokenStore, \* localStorage item TOKENS_KEY: the token map, if the item exists
    cacheStore, \* localStorage item CACHE_KEY: the cached list, if the item exists
    cpc,        \* per call: where the call stands
    call,       \* per call: the operation, its id argument, the token it sends
    timer,      \* per call: the timeout timer of apiRequest
    got,        \* per call: the Response: its status, and its body once read
    out,        \* per call: how the call ended
    lastList,   \* the list returned by the latest getAllNotes that got a list
                \* from the server
    owned       \* ids of the notes createNote has returned, less those for
                \* which deleteNote has returned true since

\* The local-fallback client (one browser): its localStorage and its call
VARIABLES
    localStore, \* localStorage item STORAGE_KEY: the local notes, if it exists
    lpc,        \* where the call stands
    lcall,      \* the operation and its arguments
    lgot,       \* the status and the body of the Response, once there is one
    lout,       \* how the call ended
    lmade       \* number of notes created locally so far

\* The path-based handler (the variant with the id in the URL): its blob
\* store and the request it handles
VARIABLES
    blob,       \* blob store: the value under NOTES_KEY, if the key exists
    hpc,        \* where the request stands
    hreq,       \* method, id segment of the path and body of the request
    hloc,       \* the handler's local variables
    hresp,      \* the Response
    hpre,       \* the value under NOTES_KEY when the request arrived
    hmade       \* number of note ids generated so far

\* The page of the shared-only client: what its event handlers keep
VARIABLES
    editingNoteId,    \* the note being edited, if any
    autoRefreshTimer, \* the id setInterval returned to startAutoRefresh, if any
    intervals,        \* the ids of the interval timers that are set
    flow,             \* where the click handler under way stands
    lastTick          \* what the latest run of the interval callback did

serverVars ==
    <<notes, index, now, made, pc, req, loc, resp, pre, gone, tokenOut, faults, posted>>

sharedVars == <<tokenStore, cacheStore, cpc, call, timer, got, out, lastList, owned>>

localVars == <<localStore, lpc, lcall, lgot, lout, lmade>>

clientVars == <<sharedVars, localVars>>

pathVars == <<blob, hpc, hreq, hloc, hresp, hpre, hmade>>

pageVars == <<editingNoteId, autoRefreshTimer, intervals, flow, lastTick>>

\* what the steps of the token-based handler leave alone
outsideServer == <<clientVars, pathVars, pageVars>>

\* what the steps of the shared-only client leave alone, the variables of
\* its page apart: a step of a call can be a step of a handler of the page
outsideShared == <<serverVars, localVars, pathVars>>

\* what the steps of the local-fallback client leave alone
outsideLocal == <<serverVars, sharedVars, pathVars, pageVars>>

\* what the steps of the path-based handler leave alone
outsidePath == <<serverVars, clientVars, pageVars>>

vars == <<serverVars, clientVars, pathVars, pageVars>>

---------------------------------------------------------------------------
(* Bounds of the model *)

MaxCreates == 3     \* ids / tokens that can be generated
MaxTime == 2        \* Date.now() ranges over 1..MaxTime
MaxFaults == 1      \* store operations that can fail
MaxLocalNotes == 2  \* notes the local-fallback client can create locally
MaxPathNotes == 2   \* note ids the path-based handler can generate
MaxTimers == 2      \* interval timers the page can set

(* Program constants, scaled *)

MAX_CONTENT_CHARS == 1
MAX_IMAGE_DATAURL_CHARS == 1
MAX_NOTES == 2
LIST_LIMIT == 1
MAX_IMAGE_DATA_URL_LENGTH == 1

Clients == {"c1", "c2"}
\* handled one at a time, the requests go through a single invocation slot
Slots(serial) == IF serial THEN {"c1"} ELSE Clients
Ids == 1..MaxCreates
Tokens == 1..MaxCreates

None == <<>>
Some(x) == <<x>>

---------------------------------------------------------------------------
(* Strings *)

IsSpace(ch) == ch = " "

RECURSIVE TrimStart(_)
TrimStart(s) ==
    IF s = <<>> THEN <<>>
    ELSE IF IsSpace(Head(s)) THEN TrimStart(Tail(s)) ELSE s

RECURSIVE TrimEnd(_)
TrimEnd(s) ==
    IF s = <<>> THEN <<>>
    ELSE IF IsSpace(s[Len(s)]) THEN TrimEnd(SubSeq(s, 1, Len(s) - 1)) ELSE s

\* String.prototype.trim
Trim(s) == TrimEnd(TrimStart(s))

---------------------------------------------------------------------------
(* Request bodies *)

Body(id, token, content, imageDataUrl) ==
    [id |-> id, token |-> token, content |-> content, imageDataUrl |-> imageDataUrl]

\* readJson: a body that is not JSON reads as {}
EmptyBody == Body(0, 0, None, None)

NoReq == [method |-> "NONE", body |-> EmptyBody]

\* (content, imageDataUrl) as sent: absent, blank, padded, image only,
\* content over MAX_CONTENT_CHARS, image over MAX_IMAGE_DATAURL_CHARS
Payloads ==
    { <<None, None>>,
      <<Some(<<" ">>), Some(<<>>)>>,
      <<Some(<<" ", "a", " ">>), None>>,
      <<Some(<<" ">>), Some(<<"i">>)>>,
      <<Some(<<"a", "b">>), None>>,
      <<Some(<<"a">>), Some(<<"i", "i">>)>> }

\* the payloads sent while requests interleave
FewPayloads == { <<None, None>>, <<Some(<<" ", "a", " ">>), None>> }

PostBodies(serial) ==
    { Body(0, 0, p[1], p[2]) : p \in IF serial THEN Payloads ELSE FewPayloads }

\* The tokens sent with an id.  Handled one at a time, the k-th POST issues
\* id k with token k, and the token sent is that one or another one; when
\* requests interleave any token is sent.
TokensFor(id, serial) == IF serial THEN {id, (id % MaxCreates) + 1} ELSE Tokens

\* id and token as sent: 0 stands for a missing one
PutBodies(serial) ==
    { Body(it[1], it[2], p[1], p[2]) :
        it \in { x \in Ids \X Tokens : x[2] \in TokensFor(x[1], serial) },
        p \in IF serial THEN Payloads ELSE FewPayloads }
    \cup { Body(0, 1, None, None), Body(1, 0, None, None) }

DeleteBodies(serial) ==
    { Body(it[1], it[2], None, None) :
        it \in { x \in Ids \X Tokens : x[2] \in TokensFor(x[1], serial) } }
    \cup { Body(0, 1, None, None), Body(1, 0, None, None) }

\* String(body?.content ?? "").trim()
ContentOf(body) ==
    Trim(IF body.content = None THEN <<>> ELSE body.content[1])

\* body?.imageDataUrl ? String(body.imageDataUrl) : null
ImageOf(body) ==
    IF body.imageDataUrl # None /\ body.imageDataUrl[1] # <<>>
    THEN Some(body.imageDataUrl[1])
    ELSE None

---------------------------------------------------------------------------
(* Notes and responses *)

PublicFields == {"id", "content", "imageDataUrl", "createdAt", "updatedAt"}

\* mutant: the note is returned as stored
cleanNote_asStored(note) == note

\* const { editToken, ...publicNote } = note
cleanNote(note) == [f \in (DOMAIN note) \ {"editToken"} |-> note[f]]

\* notes.map(cleanNote).filter(Boolean) over optional notes
RECURSIVE CleanAll(_)
CleanAll(opts) ==
    IF opts = <<>> THEN <<>>
    ELSE IF Head(opts) = None THEN CleanAll(Tail(opts))
         ELSE <<cleanNote(Head(opts)[1])>> \o CleanAll(Tail(opts))

\* json(data, status): data is an array (list), or an object with some of
\* error, ok, note, token
json(status, error, ok, list, note, token) ==
    [status |-> status, error |-> error, ok |-> ok,
     list |-> list, note |-> note, token |-> token]

NoResp == json(0, "", FALSE, <<>>, None, 0)
ErrorResp(status, error) == json(status, error, FALSE, <<>>, None, 0)
OkResp == json(200, "", TRUE, <<>>, None, 0)

\* a rejected store operation: the handler has no try/catch, the exception
\* leaves it and no Response is built
Thrown == json(-1, "store operation failed", FALSE, <<>>, None, 0)

\* the note objects a response carries
RespNotes(r) ==
    { r.list[i] : i \in 1..Len(r.list) } \cup { r.note[i] : i \in 1..Len(r.note) }

\* the tokens a response carries, in the token field or inside a note object
RespTokens(r) ==
    (IF r.token # 0 THEN {r.token} ELSE {})
    \cup { n.editToken : n \in { m \in RespNotes(r) : "editToken" \in DOMAIN m } }

CountTokens(r) ==
    [t \in Tokens |->
        IF t \in RespTokens(r) /\ tokenOut[t] < 2 THEN tokenOut[t] + 1 ELSE tokenOut[t]]

---------------------------------------------------------------------------
(* The blob store *)

AbsentIndex == [kind |-> "absent", ids |-> <<>>]
ArrayIndex(ids) == [kind |-> "array", ids |-> ids]
\* a JSON value under the index key that is not an array
ObjectIndex == [kind |-> "object", ids |-> <<>>]

\* store.get("note:" + id, { type: "json" })
GetNote(id) == IF id \in DOMAIN notes THEN Some(notes[id]) ELSE None

\* mutant: the note record is not written
SetNote_skipped(id, note) == notes

\* store.setJSON("note:" + id, note)
SetNote(id, note) == [k \in (DOMAIN notes) \cup {id} |-> IF k = id THEN note ELSE notes[k]]

\* store.delete("note:" + id)
DeleteKey(id) == [k \in (DOMAIN notes) \ {id} |-> notes[k]]

\* (await store.get(INDEX_KEY)) || [] ; Array.isArray(x) ? x : []
IndexArray(v) == IF v.kind = "array" THEN v.ids ELSE <<>>

\* Array.prototype.filter((x) => x !== id)
RECURSIVE Without(_, _)
Without(s, id) ==
    IF s = <<>> THEN <<>>
    ELSE IF Head(s) = id THEN Without(Tail(s), id)
         ELSE <<Head(s)>> \o Without(Tail(s), id)

\* Array.prototype.slice(0, n)
Slice(s, n) == SubSeq(s, 1, IF Len(s) < n THEN Len(s) ELSE n)

\* mutant: the whole index is listed
ListIds_unlimited(v) == IndexArray(v)

\* Array.isArray(index) ? index.slice(0, LIST_LIMIT) : []
ListIds(v) == Slice(IndexArray(v), LIST_LIMIT)

\* mutant: the id is prepended without removing its earlier occurrence
NewIndexOnCreate_unfiltered(id, indexArray) == Slice(<<id>> \o indexArray, MAX_NOTES)

\* mutant: the id is appended instead of prepended
NewIndexOnCreate_appended(id, indexArray) ==
    Slice(Without(indexArray, id) \o <<id>>, MAX_NOTES)

\* mutant: the new index is computed from the index as it is at the write
NewIndexOnCreate_atomic(id, indexArray) ==
    Slice(<<id>> \o Without(IndexArray(index), id), MAX_NOTES)

\* mutant: the cap keeps the oldest ids instead of the newest
NewIndexOnCreate_keptOldest(id, indexArray) ==
    LET others == Without(indexArray, id) IN
        IF Len(others) < MAX_NOTES THEN <<id>> \o others
        ELSE <<id>> \o SubSeq(others, Len(others) - MAX_NOTES + 2, Len(others))

\* [id, ...indexArray.filter((x) => x !== id)].slice(0, MAX_NOTES)
NewIndexOnCreate(id, indexArray) == Slice(<<id>> \o Without(indexArray, id), MAX_NOTES)

\* mutant: the id is not filtered out
NewIndexOnDelete_kept(id, indexArray) == indexArray

\* indexArray.filter((x) => x !== id)
NewIndexOnDelete(id, indexArray) == Without(indexArray, id)

Snapshot == [notes |-> notes, index |-> index, gone |-> gone]
NoSnapshot == [notes |-> <<>>, index |-> AbsentIndex, gone |-> {}]

NoLoc == [ids |-> <<>>, got |-> <<>>, note |-> None, indexArray |-> <<>>]

---------------------------------------------------------------------------
(* The shared-only client: values *)

\* the calls that can be pending at once in one page (a refresh can be under
\* way while the user saves or deletes)
Calls == {"k1", "k2"}

\* note ids the server's answers and the caller's arguments range over
NoteIds == {1, 2}

\* a note as the server returns it
ANote(id) ==
    [id |-> id, content |-> <<"a">>, imageDataUrl |-> None,
     createdAt |-> 1, updatedAt |-> 1]

\* the lists a GET can be answered with
ServerLists == { <<>>, <<ANote(1)>>, <<ANote(2), ANote(1)>> }

\* text ? JSON.parse(text) : null -- the parsed body: null (empty text), an
\* array, an object with some of ok, note, token, error; or text that is not
\* JSON, on which JSON.parse throws
Data(kind, list, ok, note, token, error) ==
    [kind |-> kind, list |-> list, ok |-> ok, note |-> note,
     token |-> token, error |-> error]

NullData == Data("null", <<>>, FALSE, None, 0, "")
Malformed == Data("malformed", <<>>, FALSE, None, 0, "")
ArrayData(list) == Data("array", list, FALSE, None, 0, "")
ObjectData(ok, note, token, error) == Data("object", <<>>, ok, note, token, error)

\* the bodies a Response can carry: a list; {ok, note, token}; {ok, note};
\* {ok: true}; {error}; nothing; not JSON
Bodies ==
    { ArrayData(l) : l \in ServerLists }
    \cup { ObjectData(TRUE, Some(ANote(i)), i, "") : i \in NoteIds }
    \cup { ObjectData(TRUE, Some(ANote(1)), 0, ""),
           ObjectData(TRUE, None, 0, ""),
           ObjectData(FALSE, None, 0, "Forbidden."),
           NullData, Malformed }

\* the statuses a Response can carry; res.ok is status in 200..299
Statuses == {200, 403, 500}

NoCall == [op |-> "none", id |-> 0, token |-> 0, sent |-> FALSE]

\* how a call ended: by returning (a list, a note or null, or a boolean) or
\* by raising; net tells how its API request ended
Out(kind, net, list, note, flag) ==
    [kind |-> kind, net |-> net, list |-> list, note |-> note, flag |-> flag]

NoOut == Out("none", "none", <<>>, None, FALSE)

\* no Response yet
NoGot == [status |-> 0, data |-> NullData]

\* a browser whose localStorage has neither item, no call under way
SharedInit ==
    /\ tokenStore = None
    /\ cacheStore = None
    /\ cpc = [k \in Calls |-> "idle"]
    /\ call = [k \in Calls |-> NoCall]
    /\ timer = [k \in Calls |-> "none"]
    /\ got = [k \in Calls |-> NoGot]
    /\ out = [k \in Calls |-> NoOut]
    /\ lastList = <<>>
    /\ owned = {}

---------------------------------------------------------------------------
(* The local-fallback client: values *)

\* `note_${now}_${random}`: the ids of the notes created locally
LocalIds == { 10 + i : i \in 1..MaxLocalNotes }

\* the ids updateNote and deleteNote are called with: a note of the server,
\* the notes created locally
CalledIds == {1} \cup LocalIds

\* (content, imageDataUrl) as passed to createNote and updateNote: padded
\* content, content with an image, nothing with an empty image string
LocalPayloads ==
    { <<<<" ", "b">>, None>>,
      <<<<"b">>, Some(<<"i">>)>>,
      <<<<>>, Some(<<>>)>> }

NoLocalCall == [op |-> "none", id |-> 0, content |-> <<>>, imageDataUrl |-> None]

\* the body of a Response as response.json() gives it: an object with some
\* of notes, note, error; an array; nothing (status 204); or text that is
\* not JSON, on which response.json() rejects
LBody(kind, list, note) == [kind |-> kind, notes |-> list, note |-> note]

NoBody == LBody("null", None, None)
NotJson == LBody("malformed", None, None)
BareArray == LBody("array", None, None)
NotesBody(list) == LBody("object", Some(list), None)
NoteBody(note) == LBody("object", None, Some(note))
PlainObject == LBody("object", None, None)

\* the Responses fetch can resolve with: 200 with any body, 204 without a
\* body, 404 with an error object
LocalAnswers ==
    { [status |-> 200, body |-> b] :
        b \in { NotesBody(l) : l \in ServerLists }
              \cup { NoteBody(ANote(1)), PlainObject, BareArray, NotJson } }
    \cup { [status |-> 204, body |-> NoBody], [status |-> 404, body |-> PlainObject] }

NoAnswer == [status |-> 0, body |-> NoBody]

LocalInit ==
    /\ localStore = None
    /\ lpc = "idle"
    /\ lcall = NoLocalCall
    /\ lgot = NoAnswer
    /\ lout = NoOut
    /\ lmade = 0

---------------------------------------------------------------------------
(* The path-based handler: values *)

PathIds == 1..MaxPathNotes

\* the request: method, the id segment of the path (0: none), the body
PathReq(method, id, body) == [method |-> method, id |-> id, body |-> body]

NoPathReq == PathReq("NONE", 0, <<>>)

\* a body that is not JSON: request.json() rejects
NotJsonBody == <<"not json">>

\* a JSON body {content?, imageDataUrl?}
JsonBody(content, imageDataUrl) == <<"json", content, imageDataUrl>>

\* the bodies sent: absent fields, blank content with an empty image string,
\* padded content, image only, long content, image over the limit, content
\* with an empty image string, not JSON
PathBodies ==
    { JsonBody(p[1], p[2]) : p \in Payloads \cup { <<Some(<<"a">>), Some(<<>>)>> } }
    \cup { NotJsonBody }

\* json(data, status) and new Response(null, { status }): data is {notes},
\* {note} or {error}
PathResp(status, error, note, list) ==
    [status |-> status, error |-> error, note |-> note, notes |-> list]

NoPathResp == PathResp(0, "", None, None)

NoPathLoc == [payload |-> None, notes |-> <<>>, note |-> None]

\* an empty blob store, no request
PathInit ==
    /\ blob = None
    /\ hpc = "idle"
    /\ hreq = NoPathReq
    /\ hloc = NoPathLoc
    /\ hresp = NoPathResp
    /\ hpre = None
    /\ hmade = 0

---------------------------------------------------------------------------
(* The page of the shared-only client: values *)

\* let editingNoteId = null; let autoRefreshTimer = null -- null is 0
PageInit ==
    /\ editingNoteId = 0
    /\ autoRefreshTimer = 0
    /\ intervals = {}
    /\ flow = "none"
    /\ lastTick = "none"

---------------------------------------------------------------------------
(* Initial state: an empty store, no request in flight *)

InitWith(indexValues) ==
    /\ notes = <<>>
    /\ index \in indexValues
    /\ now = 1
    /\ made = 0
    /\ pc = [c \in Clients |-> "idle"]
    /\ req = [c \in Clients |-> NoReq]
    /\ loc = [c \in Clients |-> NoLoc]
    /\ resp = [c \in Clients |-> NoResp]
    /\ pre = [c \in Clients |-> NoSnapshot]
    /\ gone = {}
    /\ tokenOut = [t \in Tokens |-> 0]
    /\ faults = 0
    /\ posted = None
    /\ SharedInit
    /\ LocalInit
    /\ PathInit
    /\ PageInit

Init == InitWith({AbsentIndex})

---------------------------------------------------------------------------
(* Steps common to all methods *)

\* A request arrives.  With serial = TRUE requests are handled one at a time.
Arrive(c, serial, method, body) ==
    /\ c \in Slots(serial)
    /\ pc[c] = "idle"
    /\ serial => \A d \in Clients : pc[d] = "idle"
    /\ req' = [req EXCEPT ![c] = [method |-> method, body |-> body]]
    /\ pre' = [pre EXCEPT ![c] =
                IF serial THEN Snapshot
                ELSE IF method = "GET" THEN [NoSnapshot EXCEPT !.gone = gone]
                ELSE NoSnapshot]

\* return json(...)
Return(c, r) ==
    /\ resp' = [resp EXCEPT ![c] = r]
    /\ pc' = [pc EXCEPT ![c] = "done"]
    /\ tokenOut' = CountTokens(r)

Goto(c, label) ==
    /\ pc' = [pc EXCEPT ![c] = label]
    /\ UNCHANGED <<resp, tokenOut>>

\* The response has been delivered; the handler invocation is over.
Finish(c, serial) ==
    /\ c \in Slots(serial)
    /\ pc[c] = "done"
    /\ posted' = IF serial /\ req[c].method = "POST" /\ resp[c].status = 200
                 THEN resp[c].note ELSE None
    /\ pc' = [pc EXCEPT ![c] = "idle"]
    /\ req' = [req EXCEPT ![c] = NoReq]
    /\ loc' = [loc EXCEPT ![c] = NoLoc]
    /\ resp' = [resp EXCEPT ![c] = NoResp]
    /\ pre' = [pre EXCEPT ![c] = NoSnapshot]
    /\ UNCHANGED <<notes, index, now, made, gone, tokenOut, faults, outsideServer>>

\* Time passes.
Tick ==
    /\ now < MaxTime
    /\ now' = now + 1
    /\ UNCHANGED <<notes, index, made, pc, req, loc, resp, pre, gone, tokenOut, faults, posted, outsideServer>>

\* OPTIONS is answered 204, any method other than GET/POST/PUT/DELETE 405.
OtherMethod(c, serial) ==
    \E m \in {"OPTIONS", "PATCH"} :
        /\ Arrive(c, serial, m, EmptyBody)
        /\ Return(c, IF m = "OPTIONS" THEN ErrorResp(204, "")
                     ELSE ErrorResp(405, "Method not allowed."))
        /\ UNCHANGED <<notes, index, now, made, loc, gone, faults, posted, outsideServer>>

---------------------------------------------------------------------------
(* GET: list.  The request is taken up at its first store operation. *)

\* const index = (await store.get(INDEX_KEY)) || []; ids = index.slice(0, LIST_LIMIT)
GetBegin(c, serial) ==
    /\ Arrive(c, serial, "GET", EmptyBody)
    /\ LET ids == ListIds(index) IN
        loc' = [loc EXCEPT ![c].ids = ids, ![c].got = [i \in 1..Len(ids) |-> None]]
    /\ Goto(c, "get_notes")
    /\ UNCHANGED <<notes, index, now, made, gone, faults, posted, outsideServer>>

\* one of the store.get calls of Promise.all completes
GetReadNote(c) ==
    /\ pc[c] = "get_notes"
    /\ \E i \in 1..Len(loc[c].ids) :
        /\ loc[c].got[i] = None
        /\ loc' = [loc EXCEPT ![c].got[i] = Some(GetNote(loc[c].ids[i]))]
    /\ Goto(c, "get_notes")
    /\ UNCHANGED <<notes, index, now, made, req, pre, gone, faults, posted, outsideServer>>

\* all reads are in: notes.map(cleanNote).filter(Boolean)
GetRespond(c) ==
    /\ pc[c] = "get_notes"
    /\ \A i \in 1..Len(loc[c].ids) : loc[c].got[i] # None
    /\ LET read == [i \in 1..Len(loc[c].ids) |-> loc[c].got[i][1]] IN
        Return(c, json(200, "", FALSE, CleanAll(read), None, 0))
    /\ UNCHANGED <<notes, index, now, made, req, loc, pre, gone, faults, posted, outsideServer>>

---------------------------------------------------------------------------
(* Validation shared by POST and PUT; "" when the body is acceptable *)

\* mutant: the empty-note check is missing
ValidationError_emptyAllowed(content, imageDataUrl) ==
    IF Len(content) > MAX_CONTENT_CHARS THEN "Note is too long."
    ELSE IF imageDataUrl # None /\ Len(imageDataUrl[1]) > MAX_IMAGE_DATAURL_CHARS
         THEN "Image is too large."
    ELSE ""

\* mutant: the limits are compared with >= instead of >
ValidationError_offByOne(content, imageDataUrl) ==
    IF content = <<>> /\ imageDataUrl = None THEN "Empty note."
    ELSE IF Len(content) >= MAX_CONTENT_CHARS THEN "Note is too long."
    ELSE IF imageDataUrl # None /\ Len(imageDataUrl[1]) >= MAX_IMAGE_DATAURL_CHARS
         THEN "Image is too large."
    ELSE ""

ValidationError(content, imageDataUrl) ==
    IF content = <<>> /\ imageDataUrl = None THEN "Empty note."
    ELSE IF Len(content) > MAX_CONTENT_CHARS THEN "Note is too long."
    ELSE IF imageDataUrl # None /\ Len(imageDataUrl[1]) > MAX_IMAGE_DATAURL_CHARS
         THEN "Image is too large."
    ELSE ""

\* mutant: the token is not compared
TokenMatches_any(existing, token) == TRUE

\* existing.editToken !== token, negated
TokenMatches(existing, token) == existing.editToken = token

\* const note = { id, content, imageDataUrl, createdAt: now, updatedAt: now, editToken }
NewNote(id, content, imageDataUrl, token) ==
    [id |-> id, content |-> content, imageDataUrl |-> imageDataUrl,
     createdAt |-> now, updatedAt |-> now, editToken |-> token]

\* mutant: the note is built anew instead of spread from `existing`
Updated_rebuilt(existing, content, imageDataUrl) ==
    [existing EXCEPT !.content = content,
                     !.imageDataUrl = imageDataUrl,
                     !.createdAt = now,
                     !.updatedAt = now]

\* const updated = { ...existing, content, imageDataUrl, updatedAt: Date.now() }
Updated(existing, content, imageDataUrl) ==
    [existing EXCEPT !.content = content,
                     !.imageDataUrl = imageDataUrl,
                     !.updatedAt = now]

\* mutant: an unknown id is reported as on PUT
AlreadyDeleted_notFound == ErrorResp(404, "Note not found.")

\* DELETE of an id without a note record: if (!existing) return json({ ok: true })
AlreadyDeleted == OkResp

\* crypto.randomUUID(): the next unused id; with collide = TRUE any id at all
randomUUID(collide) == IF collide THEN Ids ELSE {made + 1}

\* crypto.randomBytes(16).toString("hex"): a token never issued before
randomBytes == made + 1

---------------------------------------------------------------------------
(* POST: create *)

PostBegin(c, serial, collide) ==
    \E body \in PostBodies(serial) :
      LET err == ValidationError(ContentOf(body), ImageOf(body)) IN
        /\ Arrive(c, serial, "POST", body)
        /\ IF err # ""
           THEN /\ Return(c, ErrorResp(400, err))
                /\ UNCHANGED <<made, loc>>
           ELSE /\ made < MaxCreates
                /\ \E id \in randomUUID(collide) :
                    loc' = [loc EXCEPT ![c].note = Some(
                        NewNote(id, ContentOf(body), ImageOf(body), randomBytes))]
                /\ made' = made + 1
                /\ Goto(c, "post_set_note")
        /\ UNCHANGED <<notes, index, now, gone, faults, posted, outsideServer>>

\* await store.setJSON(`${NOTE_PREFIX}${id}`, note)
PostSetNote(c) ==
    /\ pc[c] = "post_set_note"
    /\ notes' = SetNote(loc[c].note[1].id, loc[c].note[1])
    /\ Goto(c, "post_get_index")
    /\ UNCHANGED <<index, now, made, req, loc, pre, gone, faults, posted, outsideServer>>

\* const existingIndex = (await store.get(INDEX_KEY)) || []
PostGetIndex(c) ==
    /\ pc[c] = "post_get_index"
    /\ loc' = [loc EXCEPT ![c].indexArray = IndexArray(index)]
    /\ Goto(c, "post_set_index")
    /\ UNCHANGED <<notes, index, now, made, req, pre, gone, faults, posted, outsideServer>>

\* await store.setJSON(INDEX_KEY, newIndex); return { ok, note, token }
PostSetIndex(c) ==
    /\ pc[c] = "post_set_index"
    /\ index' = ArrayIndex(NewIndexOnCreate(loc[c].note[1].id, loc[c].indexArray))
    /\ Return(c, json(200, "", TRUE, <<>>, Some(cleanNote(loc[c].note[1])),
                      loc[c].note[1].editToken))
    /\ UNCHANGED <<notes, now, made, req, loc, pre, gone, faults, posted, outsideServer>>

---------------------------------------------------------------------------
(* PUT: update *)

\* mutant: content and image are validated before the note is looked up
PutRefusal_validatedFirst(body, existing) ==
    LET err == ValidationError(ContentOf(body), ImageOf(body)) IN
        IF body.id = 0 \/ body.token = 0 THEN ErrorResp(400, "Missing id/token.")
        ELSE IF err # "" THEN ErrorResp(400, err)
        ELSE IF existing = None THEN ErrorResp(404, "Note not found.")
        ELSE IF ~TokenMatches(existing[1], body.token) THEN ErrorResp(403, "Forbidden.")
        ELSE NoResp

\* the early returns of PUT in the order of the code: missing id/token, no
\* note record, token mismatch, validation; NoResp when none is taken
PutRefusal(body, existing) ==
    LET err == ValidationError(ContentOf(body), ImageOf(body)) IN
        IF body.id = 0 \/ body.token = 0 THEN ErrorResp(400, "Missing id/token.")
        ELSE IF existing = None THEN ErrorResp(404, "Note not found.")
        ELSE IF ~TokenMatches(existing[1], body.token) THEN ErrorResp(403, "Forbidden.")
        ELSE IF err # "" THEN ErrorResp(400, err)
        ELSE NoResp

\* the body is read, then const existing = await store.get(...), the checks,
\* and `updated` is built
PutBegin(c, serial) ==
    \E body \in PutBodies(serial) :
      LET existing == GetNote(body.id)
          refusal == PutRefusal(body, existing)
      IN
        /\ Arrive(c, serial, "PUT", body)
        /\ IF refusal # NoResp
           THEN Return(c, refusal) /\ UNCHANGED loc
           ELSE /\ loc' = [loc EXCEPT ![c].note =
                                Some(Updated(existing[1], ContentOf(body), ImageOf(body)))]
                /\ Goto(c, "put_set_note")
        /\ UNCHANGED <<notes, index, now, made, gone, faults, posted, outsideServer>>

\* await store.setJSON(`${NOTE_PREFIX}${id}`, updated); return { ok, note }
PutSetNote(c) ==
    /\ pc[c] = "put_set_note"
    /\ notes' = SetNote(req[c].body.id, loc[c].note[1])
    /\ Return(c, json(200, "", TRUE, <<>>, Some(cleanNote(loc[c].note[1])), 0))
    /\ UNCHANGED <<index, now, made, req, loc, pre, gone, faults, posted, outsideServer>>

---------------------------------------------------------------------------
(* DELETE *)

\* the body is read, then const existing = await store.get(...) and the checks
DeleteBegin(c, serial) ==
    \E body \in DeleteBodies(serial) :
      LET existing == GetNote(body.id) IN
        /\ Arrive(c, serial, "DELETE", body)
        /\ IF body.id = 0 \/ body.token = 0
           THEN Return(c, ErrorResp(400, "Missing id/token."))
           ELSE IF existing = None
           THEN Return(c, AlreadyDeleted)
           ELSE IF ~TokenMatches(existing[1], body.token)
           THEN Return(c, ErrorResp(403, "Forbidden."))
           ELSE Goto(c, "delete_note")
        /\ UNCHANGED <<notes, index, now, made, loc, gone, faults, posted, outsideServer>>

\* await store.delete(`${NOTE_PREFIX}${id}`)
DeleteNote(c) ==
    /\ pc[c] = "delete_note"
    /\ notes' = DeleteKey(req[c].body.id)
    /\ Goto(c, "delete_get_index")
    /\ UNCHANGED <<index, now, made, req, loc, pre, gone, faults, posted, outsideServer>>

\* const existingIndex = (await store.get(INDEX_KEY)) || []
DeleteGetIndex(c) ==
    /\ pc[c] = "delete_get_index"
    /\ loc' = [loc EXCEPT ![c].indexArray = IndexArray(index)]
    /\ Goto(c, "delete_set_index")
    /\ UNCHANGED <<notes, index, now, made, req, pre, gone, faults, posted, outsideServer>>

\* await store.setJSON(INDEX_KEY, newIndex); return { ok: true }
DeleteSetIndex(c) ==
    /\ pc[c] = "delete_set_index"
    /\ index' = ArrayIndex(NewIndexOnDelete(req[c].body.id, loc[c].indexArray))
    /\ gone' = gone \cup {req[c].body.id}
    /\ Return(c, OkResp)
    /\ UNCHANGED <<notes, now, made, req, loc, pre, faults, posted, outsideServer>>

---------------------------------------------------------------------------
(* A store operation is rejected *)

StoreOps ==
    { "get_notes", "post_set_note", "post_get_index", "post_set_index",
      "put_set_note", "delete_note", "delete_get_index", "delete_set_index" }

\* a pending store operation of the request fails: the await throws
Throw(c) ==
    /\ pc[c] \in StoreOps
    /\ pc[c] = "get_notes" => \E i \in 1..Len(loc[c].ids) : loc[c].got[i] = None
    /\ faults < MaxFaults
    /\ faults' = faults + 1
    /\ Return(c, Thrown)
    /\ UNCHANGED <<notes, index, now, made, req, loc, pre, gone, posted, outsideServer>>

\* the first store.get of a GET, PUT or DELETE fails
BeginThrow(c, serial) ==
    /\ \/ Arrive(c, serial, "GET", EmptyBody)
       \/ \E body \in PutBodies(serial) :
            body.id # 0 /\ body.token # 0 /\ Arrive(c, serial, "PUT", body)
       \/ \E body \in DeleteBodies(serial) :
            body.id # 0 /\ body.token # 0 /\ Arrive(c, serial, "DELETE", body)
    /\ faults < MaxFaults
    /\ faults' = faults + 1
    /\ Return(c, Thrown)
    /\ UNCHANGED <<notes, index, now, made, loc, gone, posted, outsideServer>>

---------------------------------------------------------------------------
(* Specifications *)

\* requests handled one at a time, every store operation succeeds
Next ==
    \/ Tick
    \/ \E c \in Clients :
        \/ GetBegin(c, TRUE) \/ GetReadNote(c) \/ GetRespond(c)
        \/ PostBegin(c, TRUE, FALSE) \/ PostSetNote(c) \/ PostGetIndex(c)
        \/ PostSetIndex(c)
        \/ PutBegin(c, TRUE) \/ PutSetNote(c)
        \/ DeleteBegin(c, TRUE) \/ DeleteNote(c) \/ DeleteGetIndex(c)
        \/ DeleteSetIndex(c)
        \/ OtherMethod(c, TRUE)
        \/ Finish(c, TRUE)

Spec == Init /\ [][Next]_vars

\* one at a time; store operations may fail, and the index key may hold a
\* value written by something else than this handler
NextFault ==
    \/ Next
    \/ \E c \in Clients : Throw(c) \/ BeginThrow(c, TRUE)

SpecFault == InitWith({AbsentIndex, ObjectIndex}) /\ [][NextFault]_vars

\* POST and DELETE requests of different clients interleave at the store
\* operations; with collide = TRUE randomUUID may return an id already in use
NextIndexWriters(collide) ==
    \E c \in Clients :
        \/ PostBegin(c, FALSE, collide) \/ PostSetNote(c) \/ PostGetIndex(c)
        \/ PostSetIndex(c)
        \/ DeleteBegin(c, FALSE) \/ DeleteNote(c) \/ DeleteGetIndex(c)
        \/ DeleteSetIndex(c)
        \/ Finish(c, FALSE)

SpecCollide == Init /\ [][NextIndexWriters(TRUE)]_vars

\* the same with ids that are never generated twice
SpecInterleaved == Init /\ [][NextIndexWriters(FALSE)]_vars

\* requests of all four methods interleave at the store operations
NextRace ==
    \E c \in Clients :
        \/ GetBegin(c, FALSE) \/ GetReadNote(c) \/ GetRespond(c)
        \/ PostBegin(c, FALSE, FALSE) \/ PostSetNote(c) \/ PostGetIndex(c)
        \/ PostSetIndex(c)
        \/ PutBegin(c, FALSE) \/ PutSetNote(c)
        \/ DeleteBegin(c, FALSE) \/ DeleteNote(c) \/ DeleteGetIndex(c)
        \/ DeleteSetIndex(c)
        \/ Finish(c, FALSE)

SpecRace == Init /\ [][NextRace]_vars

---------------------------------------------------------------------------
(* Vocabulary of the properties *)

Range(seq) == { seq[i] : i \in 1..Len(seq) }

Finished(c, method) == pc[c] = "done" /\ req[c].method = method

\* the request of c carried an id and a token
Addressed(c) == req[c].body.id # 0 /\ req[c].body.token # 0

\* the store is as it was when the request of c arrived
StoreUntouched(c) == notes = pre[c].notes /\ index = pre[c].index

\* what a GET lists from a store: the notes of the first LIST_LIMIT index ids
\* that have a record, in index order, without their editToken
RECURSIVE Listing(_, _, _)
Listing(ns, ids, n) ==
    IF n = 0 \/ ids = <<>> THEN <<>>
    ELSE (IF Head(ids) \in DOMAIN ns
          THEN <<[f \in PublicFields |-> ns[Head(ids)][f]]>> ELSE <<>>)
         \o Listing(ns, Tail(ids), n - 1)

ListingOf(ns, idx) ==
    Listing(ns, IF idx.kind = "array" THEN idx.ids ELSE <<>>, LIST_LIMIT)

\* a POST that has generated its note and not answered yet
Creating(c) == pc[c] \in {"post_set_note", "post_get_index", "post_set_index"}

---------------------------------------------------------------------------
\* C1: no note object in a response of GET, POST or PUT has an editToken
\* field, each has exactly the public fields; a token is carried only by the
\* token field of the 200 response of the POST that stored it with its note,
\* and every token issued has been carried by exactly one response once its
\* POST has answered.
C1_TokenNeverInNotes ==
    /\ \A c \in Clients : \A n \in RespNotes(resp[c]) : DOMAIN n = PublicFields
    /\ \A c \in Clients :
        RespTokens(resp[c]) # {} =>
            /\ Finished(c, "POST") /\ resp[c].status = 200
            /\ RespTokens(resp[c]) = {resp[c].token}
            /\ resp[c].note # None
            /\ resp[c].note[1].id \in DOMAIN notes
            /\ notes[resp[c].note[1].id].editToken = resp[c].token
    /\ \A t \in 1..made :
        tokenOut[t] =
            IF \E c \in Clients : Creating(c) /\ loc[c].note[1].editToken = t
            THEN 0 ELSE 1

\* a GET has listed a note whose token was handed out by its POST
C1_Witness ==
    \E c \in Clients :
        /\ Finished(c, "GET") /\ resp[c].list # <<>>
        /\ resp[c].list[1].id \in DOMAIN notes
        /\ tokenOut[notes[resp[c].list[1].id].editToken] = 1

---------------------------------------------------------------------------
\* C2: a PUT or DELETE that names an existing note and carries a token other
\* than the note's editToken is answered 403, the note records and the index
\* are as before the request, and what a GET lists is as before.
C2_WrongTokenChangesNothing ==
    \A c \in Clients :
        ( /\ Finished(c, "PUT") \/ Finished(c, "DELETE")
          /\ Addressed(c)
          /\ req[c].body.id \in DOMAIN pre[c].notes
          /\ pre[c].notes[req[c].body.id].editToken # req[c].body.token )
        => /\ resp[c].status = 403
           /\ StoreUntouched(c)
           /\ req[c].body.id \in DOMAIN notes
           /\ ListingOf(notes, index) = ListingOf(pre[c].notes, pre[c].index)

\* a DELETE with a wrong token was refused for a note that a GET lists
C2_Witness ==
    \E c \in Clients :
        /\ Finished(c, "DELETE") /\ resp[c].status = 403
        /\ req[c].body.id \in DOMAIN notes
        /\ notes[req[c].body.id].editToken # req[c].body.token
        /\ \E i \in 1..Len(ListingOf(notes, index)) :
            ListingOf(notes, index)[i].id = req[c].body.id

---------------------------------------------------------------------------
(* What a body asks to store, read off the body itself *)

\* s without the spaces at its two ends
Stripped(s) ==
    LET inked == { i \in 1..Len(s) : s[i] # " " } IN
        IF inked = {} THEN <<>>
        ELSE SubSeq(s, CHOOSE i \in inked : \A j \in inked : i <= j,
                       CHOOSE i \in inked : \A j \in inked : j <= i)

SentContent(body) == IF body.content = None THEN <<>> ELSE Stripped(body.content[1])

SentImage(body) ==
    IF body.imageDataUrl = None \/ body.imageDataUrl = Some(<<>>)
    THEN None ELSE body.imageDataUrl

SentNothing(body) == SentContent(body) = <<>> /\ SentImage(body) = None

Acceptable(body) ==
    /\ ~SentNothing(body)
    /\ Len(SentContent(body)) <= MAX_CONTENT_CHARS
    /\ SentImage(body) # None => Len(SentImage(body)[1]) <= MAX_IMAGE_DATAURL_CHARS

\* the PUT of c named a stored note and carried its token
Authorised(c) ==
    /\ Addressed(c)
    /\ req[c].body.id \in DOMAIN pre[c].notes
    /\ pre[c].notes[req[c].body.id].editToken = req[c].body.token

PublicView(note) == [f \in PublicFields |-> note[f]]

---------------------------------------------------------------------------
\* C3: a PUT with an existing id, the note's token and acceptable content and
\* image is answered 200 with the sanitized note, the stored note holds the
\* trimmed content and the image sent, and its updatedAt is greater than its
\* createdAt.
C3_UpdateStoresAndAdvances ==
    \A c \in Clients :
        (Finished(c, "PUT") /\ Authorised(c) /\ Acceptable(req[c].body)) =>
            LET id == req[c].body.id IN
                /\ resp[c].status = 200
                /\ id \in DOMAIN notes
                /\ notes[id].content = SentContent(req[c].body)
                /\ notes[id].imageDataUrl = SentImage(req[c].body)
                /\ resp[c].note = Some(PublicView(notes[id]))
                /\ notes[id].updatedAt > notes[id].createdAt

---------------------------------------------------------------------------
\* C4: a PUT answered 200 leaves the index, the set of note records and every
\* other record as they were, and of the addressed record it keeps id,
\* createdAt and editToken; every stored note still has the token its POST
\* returned (the k-th POST generates id k and token k).
C4_UpdateFrame ==
    /\ \A c \in Clients :
        (Finished(c, "PUT") /\ resp[c].status = 200) =>
            LET id == req[c].body.id IN
                /\ index = pre[c].index
                /\ DOMAIN notes = DOMAIN pre[c].notes
                /\ \A k \in DOMAIN notes : k # id => notes[k] = pre[c].notes[k]
                /\ notes[id].id = pre[c].notes[id].id
                /\ notes[id].createdAt = pre[c].notes[id].createdAt
                /\ notes[id].editToken = pre[c].notes[id].editToken
    /\ \A id \in DOMAIN notes : notes[id].id = id /\ notes[id].editToken = id

\* a note that had been updated before was updated again at a later time,
\* with another note in the store
C4_Witness ==
    \E c \in Clients :
        /\ Finished(c, "PUT") /\ resp[c].status = 200
        /\ pre[c].notes[req[c].body.id].updatedAt > pre[c].notes[req[c].body.id].createdAt
        /\ notes[req[c].body.id] # pre[c].notes[req[c].body.id]
        /\ now > notes[req[c].body.id].createdAt
        /\ Cardinality(DOMAIN notes) > 1

---------------------------------------------------------------------------
\* C5: requests handled one at a time: once a DELETE with the note's token
\* has been answered ok, the note has no record, its id is not in the index
\* and no GET answered afterwards lists a note with that id.
C5_DeletedStaysGone ==
    \A id \in gone :
        /\ id \notin DOMAIN notes
        /\ id \notin Range(index.ids)
        /\ \A c \in Clients :
            Finished(c, "GET") => \A n \in Range(resp[c].list) : n.id # id

\* a GET answered after a delete, listing a note that is left
C5_Witness ==
    \E c \in Clients : Finished(c, "GET") /\ gone # {} /\ resp[c].list # <<>>

---------------------------------------------------------------------------
\* C6: a DELETE with an id and a token for which no note record exists is
\* answered 200 {ok: true} and leaves note records and index as they were.
C6_DeleteUnknownIsOk ==
    \A c \in Clients :
        ( /\ Finished(c, "DELETE") /\ Addressed(c)
          /\ req[c].body.id \notin DOMAIN pre[c].notes )
        => /\ resp[c].status = 200 /\ resp[c].ok /\ resp[c].error = ""
           /\ StoreUntouched(c)

\* the DELETE of a note deleted before was answered ok again, with a note left
C6_Witness ==
    \E c \in Clients :
        /\ Finished(c, "DELETE") /\ Addressed(c)
        /\ req[c].body.id \in gone
        /\ resp[c].status = 200 /\ resp[c].ok
        /\ DOMAIN notes # {}

---------------------------------------------------------------------------
IndexWithinCap ==
    /\ Len(index.ids) <= MAX_NOTES
    /\ \A i, j \in 1..Len(index.ids) : i # j => index.ids[i] # index.ids[j]

\* the POST of c writes the index, and the index it read holds its id already
RewritesOwnId(c) ==
    /\ pc[c] = "post_set_index"
    /\ loc[c].note[1].id \in Range(loc[c].indexArray)

\* C7: POST and DELETE requests interleaved at their store reads and writes,
\* from an empty store: after every step the index holds at most MAX_NOTES
\* ids and no id twice; an index write of a POST whose id is in the index it
\* read puts that id first, followed by the other ids in their order.
C7_IndexCappedNoDuplicates ==
    [][ /\ IndexWithinCap'
        /\ \A c \in Clients :
            (RewritesOwnId(c) /\ pc'[c] = "done") =>
                LET id == loc[c].note[1].id
                    others == SelectSeq(loc[c].indexArray, LAMBDA x : x # id)
                IN /\ index'.ids # <<>>
                   /\ Head(index'.ids) = id
                   /\ Tail(index'.ids) = SubSeq(others, 1, Len(index'.ids) - 1)
                   /\ Len(index'.ids) = Len(loc[c].indexArray)
      ]_vars

\* a POST has rewritten a full index that already held its id
C7_Witness ==
    \E c \in Clients :
        /\ Finished(c, "POST") /\ resp[c].status = 200
        /\ loc[c].note[1].id \in Range(loc[c].indexArray)
        /\ Len(loc[c].indexArray) = MAX_NOTES
        /\ Head(loc[c].indexArray) # loc[c].note[1].id
        /\ index.ids = <<loc[c].note[1].id>>
                        \o SelectSeq(loc[c].indexArray, LAMBDA x : x # loc[c].note[1].id)

---------------------------------------------------------------------------
\* C8: requests handled one at a time: a POST with an acceptable body is
\* answered 200 with a note holding the trimmed content and the image sent,
\* with createdAt = updatedAt; the GET handled right after a POST answered 200
\* lists a note equal, field for field, to the note that POST returned.
C8_CreateThenList ==
    /\ \A c \in Clients :
        (Finished(c, "POST") /\ Acceptable(req[c].body)) =>
            /\ resp[c].status = 200 /\ resp[c].note # None
            /\ resp[c].note[1].content = SentContent(req[c].body)
            /\ resp[c].note[1].imageDataUrl = SentImage(req[c].body)
            /\ resp[c].note[1].createdAt = resp[c].note[1].updatedAt
    /\ \A c \in Clients :
        (Finished(c, "GET") /\ posted # None) =>
            /\ posted[1] \in Range(resp[c].list)
            /\ posted[1].createdAt = posted[1].updatedAt

\* a GET right after the POST of an image-only note, not the first note
C8_Witness ==
    \E c \in Clients :
        /\ Finished(c, "GET") /\ posted # None
        /\ posted[1].content = <<>> /\ posted[1].imageDataUrl # None
        /\ Cardinality(DOMAIN notes) > 1
        /\ posted[1] \in Range(resp[c].list)

---------------------------------------------------------------------------
---------------------------------------------------------------------------
\* every stored note has content that is trimmed and not empty, or an image
NotesNeverEmpty ==
    \A id \in DOMAIN notes :
        /\ notes[id].content = Stripped(notes[id].content)
        /\ notes[id].imageDataUrl # Some(<<>>)
        /\ notes[id].content # <<>> \/ notes[id].imageDataUrl # None

\* C10 as stated: every stored note has content or an image, and every POST
\* or PUT whose content is empty after trimming and whose image is absent is
\* answered 400 and writes nothing.
C10_EmptyAlways400 ==
    /\ NotesNeverEmpty
    /\ \A c \in Clients :
        ((Finished(c, "POST") \/ Finished(c, "PUT")) /\ SentNothing(req[c].body)) =>
            resp[c].status = 400 /\ StoreUntouched(c)

\* C10 amended: every stored note has content or an image; a POST, or a PUT
\* carrying the id and token of a stored note, whose content is empty after
\* trimming and whose image is absent is answered 400; any POST or PUT with
\* such a body writes nothing, whatever its answer (400, 403 or 404).
C10_EmptyNeverStored ==
    /\ NotesNeverEmpty
    /\ \A c \in Clients :
        ((Finished(c, "POST") \/ Finished(c, "PUT")) /\ SentNothing(req[c].body)) =>
            /\ StoreUntouched(c)
            /\ resp[c].status \in {400, 403, 404}
            /\ (Finished(c, "POST") \/ Authorised(c)) => resp[c].status = 400

\* the token holder's PUT with a blank content and an empty image string was
\* answered 400, the note being stored with an image only
C10_Witness ==
    \E c \in Clients :
        /\ Finished(c, "PUT") /\ Authorised(c)
        /\ req[c].body.content = Some(<<" ">>)
        /\ resp[c].status = 400 /\ resp[c].error = "Empty note."
        /\ notes[req[c].body.id].content = <<>>

---------------------------------------------------------------------------
\* the trimmed content or the image of the body is over its limit
Oversized(body) ==
    \/ Len(SentContent(body)) > MAX_CONTENT_CHARS
    \/ SentImage(body) # None /\ Len(SentImage(body)[1]) > MAX_IMAGE_DATAURL_CHARS

\* the body is acceptable with its trimmed content or its image exactly at
\* the limit
AtLimit(body) ==
    /\ Acceptable(body)
    /\ \/ Len(SentContent(body)) = MAX_CONTENT_CHARS
       \/ SentImage(body) # None /\ Len(SentImage(body)[1]) = MAX_IMAGE_DATAURL_CHARS

\* a POST, or a PUT with the id and token of a stored note, with a body at
\* the limit is answered 200 and the note is stored as sent
AtLimitAccepted ==
    \A c \in Clients :
        ( /\ Finished(c, "POST") \/ (Finished(c, "PUT") /\ Authorised(c))
          /\ AtLimit(req[c].body) )
        => /\ resp[c].status = 200 /\ resp[c].note # None
           /\ resp[c].note[1].id \in DOMAIN notes
           /\ notes[resp[c].note[1].id].content = SentContent(req[c].body)
           /\ notes[resp[c].note[1].id].imageDataUrl = SentImage(req[c].body)

\* C11 as stated: every POST or PUT whose trimmed content is longer than
\* MAX_CONTENT_CHARS or whose image is longer than MAX_IMAGE_DATAURL_CHARS is
\* answered 400 and leaves the store as it was; content and image exactly at
\* the limit are accepted on create and on update.
C11_OversizeAlways400 ==
    /\ \A c \in Clients :
        ((Finished(c, "POST") \/ Finished(c, "PUT")) /\ Oversized(req[c].body)) =>
            resp[c].status = 400 /\ StoreUntouched(c)
    /\ AtLimitAccepted

\* C11 amended: a POST, or a PUT carrying the id and token of a stored note,
\* whose trimmed content or image is over its limit is answered 400 with the
\* validation error; any POST or PUT with such a body leaves the store as it
\* was, whatever its answer (400, 403 or 404); content and image exactly at
\* the limit are accepted on create and on update.
C11_OversizeNeverStored ==
    /\ \A c \in Clients :
        ((Finished(c, "POST") \/ Finished(c, "PUT")) /\ Oversized(req[c].body)) =>
            /\ StoreUntouched(c)
            /\ resp[c].status \in {400, 403, 404}
            /\ (Finished(c, "POST") \/ Authorised(c)) =>
                /\ resp[c].status = 400
                /\ resp[c].error \in {"Note is too long.", "Image is too large."}
    /\ AtLimitAccepted

\* the token holder's PUT with an image over the limit was answered 400, the
\* note being stored with content exactly at the limit
C11_Witness ==
    \E c \in Clients :
        /\ Finished(c, "PUT") /\ Authorised(c)
        /\ SentImage(req[c].body) # None
        /\ Len(SentImage(req[c].body)[1]) > MAX_IMAGE_DATAURL_CHARS
        /\ resp[c].status = 400 /\ resp[c].error = "Image is too large."
        /\ Len(notes[req[c].body.id].content) = MAX_CONTENT_CHARS

---------------------------------------------------------------------------
\* C12: store operations may fail: every request the handler has finished
\* with was answered by a Response (an HTTP status), so no exception left the
\* handler, and no response reports the message of the failed operation.
C12_FaultAnswered500 ==
    \A c \in Clients :
        pc[c] = "done" =>
            /\ resp[c].status \in 100..599
            /\ resp[c].error # Thrown.error

---------------------------------------------------------------------------
(* The shared-only client: localStorage *)

\* loadJson(key, fallback): the parsed item, the fallback when there is none
loadJson(item, fallback) == IF item = None THEN fallback ELSE item[1]

\* saveJson(key, value): the item after localStorage.setItem
saveJson(value) == Some(value)

\* loadJson(TOKENS_KEY, {})
loadTokens == loadJson(tokenStore, <<>>)

\* Boolean(tokens[noteId]); the empty token "" is 0
canEdit(noteId) == noteId \in DOMAIN loadTokens /\ loadTokens[noteId] # 0

\* mutant: a token is made up for a note without one
getToken_madeUp(noteId) == IF canEdit(noteId) THEN loadTokens[noteId] ELSE 1

\* tokens[noteId] || null; null is 0
getToken(noteId) == IF canEdit(noteId) THEN loadTokens[noteId] ELSE 0

\* tokens[noteId] = token; saveTokens(tokens)
setToken(noteId, token) ==
    saveJson([i \in (DOMAIN loadTokens) \cup {noteId} |->
                IF i = noteId THEN token ELSE loadTokens[i]])

\* mutant: the map is saved without the entry having been deleted
deleteToken_kept(noteId) == saveJson(loadTokens)

\* delete tokens[noteId]; saveTokens(tokens)
deleteToken(noteId) == saveJson([i \in (DOMAIN loadTokens) \ {noteId} |-> loadTokens[i]])

\* mutant: the cache is not consulted
cachedNotes_none == <<>>

\* loadJson(CACHE_KEY, []), as getAllNotes returns it in its catch
cachedNotes == loadJson(cacheStore, <<>>)

---------------------------------------------------------------------------
(* The shared-only client: apiRequest and the four operations *)

\* mutant: no timer is set
setTimeout_unset == "none"

\* const timer = setTimeout(() => controller.abort(), timeoutMs)
setTimeout == "armed"

\* finally { clearTimeout(timer) }
clearTimeout(t) == IF t = "none" THEN "none" ELSE "cleared"

\* mutant: the failure is swallowed and null / false returned
Raised_swallowed(net) == Out("returned", net, <<>>, None, FALSE)

\* the exception of apiRequest leaves createNote, updateNote, deleteNote
Raised(net) == Out("raised", net, <<>>, None, FALSE)

Returned(net, list, note, flag) == Out("returned", net, list, note, flag)

\* the call is over; apiRequest, if entered, has run its finally
EndCall(k, o) ==
    /\ cpc' = [cpc EXCEPT ![k] = "ended"]
    /\ out' = [out EXCEPT ![k] = o]
    /\ timer' = [timer EXCEPT ![k] = clearTimeout(timer[k])]

\* apiRequest(method, body): the timer is set, fetch is called and awaited
apiRequest(k, op, id, token) ==
    /\ call' = [call EXCEPT ![k] = [op |-> op, id |-> id, token |-> token, sent |-> TRUE]]
    /\ timer' = [timer EXCEPT ![k] = setTimeout]
    /\ cpc' = [cpc EXCEPT ![k] = "fetch"]
    /\ UNCHANGED <<tokenStore, cacheStore, got, out, lastList, owned>>

\* if (!token) return null / return false: nothing is sent
NoToken(k, op, id) ==
    /\ call' = [call EXCEPT ![k] = [op |-> op, id |-> id, token |-> 0, sent |-> FALSE]]
    /\ EndCall(k, Returned("none", <<>>, None, FALSE))
    /\ UNCHANGED <<tokenStore, cacheStore, got, lastList, owned>>

getAllNotes(k) ==
    /\ cpc[k] = "idle"
    /\ apiRequest(k, "getAllNotes", 0, 0)
    /\ UNCHANGED outsideShared

createNote(k) ==
    /\ cpc[k] = "idle"
    /\ apiRequest(k, "createNote", 0, 0)
    /\ UNCHANGED outsideShared

updateNote(k) ==
    /\ cpc[k] = "idle"
    /\ \E id \in NoteIds :
        IF getToken(id) = 0 THEN NoToken(k, "updateNote", id)
        ELSE apiRequest(k, "updateNote", id, getToken(id))
    /\ UNCHANGED outsideShared

deleteNote(k) ==
    /\ cpc[k] = "idle"
    /\ \E id \in NoteIds :
        IF getToken(id) = 0 THEN NoToken(k, "deleteNote", id)
        ELSE apiRequest(k, "deleteNote", id, getToken(id))
    /\ UNCHANGED outsideShared

\* How apiRequest ends once the body has been read: JSON.parse throws on text
\* that is not JSON, then a status outside 200..299 throws, else data is
\* returned.
Parsed(status, data) ==
    IF data = Malformed THEN "malformed"
    ELSE IF status \notin 200..299 THEN "status"
    ELSE "ok"

\* getAllNotes after apiRequest: an array is cached and returned, any other
\* data gives []; in the catch the cached list is returned
SettleGetAllNotes(k, net, data) ==
    IF net = "ok" /\ data.kind = "array"
    THEN /\ cacheStore' = saveJson(data.list)
         /\ lastList' = data.list
         /\ EndCall(k, Returned(net, data.list, None, FALSE))
         /\ UNCHANGED <<tokenStore, owned>>
    ELSE /\ EndCall(k, Returned(net, IF net = "ok" THEN <<>> ELSE cachedNotes,
                                None, FALSE))
         /\ UNCHANGED <<tokenStore, cacheStore, lastList, owned>>

\* createNote after apiRequest: if (data && data.note && data.token)
\* { setToken(data.note.id, data.token); return data.note } return null
SettleCreateNote(k, net, data) ==
    IF net = "ok" /\ data.note # None /\ data.token # 0
    THEN /\ tokenStore' = setToken(data.note[1].id, data.token)
         /\ owned' = owned \cup {data.note[1].id}
         /\ EndCall(k, Returned(net, <<>>, data.note, FALSE))
         /\ UNCHANGED <<cacheStore, lastList>>
    ELSE /\ EndCall(k, IF net = "ok" THEN Returned(net, <<>>, None, FALSE)
                       ELSE Raised(net))
         /\ UNCHANGED <<tokenStore, cacheStore, lastList, owned>>

\* updateNote after apiRequest: return data && data.note ? data.note : null
SettleUpdateNote(k, net, data) ==
    /\ EndCall(k, IF net = "ok" THEN Returned(net, <<>>, data.note, FALSE)
                  ELSE Raised(net))
    /\ UNCHANGED <<tokenStore, cacheStore, lastList, owned>>

\* deleteNote after apiRequest: if (data && data.ok) { deleteToken(id);
\* return true } return false
SettleDeleteNote(k, net, data) ==
    IF net = "ok" /\ data.ok
    THEN /\ tokenStore' = deleteToken(call[k].id)
         /\ owned' = owned \ {call[k].id}
         /\ EndCall(k, Returned(net, <<>>, None, TRUE))
         /\ UNCHANGED <<cacheStore, lastList>>
    ELSE /\ EndCall(k, IF net = "ok" THEN Returned(net, <<>>, None, FALSE)
                       ELSE Raised(net))
         /\ UNCHANGED <<tokenStore, cacheStore, lastList, owned>>

\* the awaited apiRequest is over (net: how) and the operation continues
Settle(k, net, data) ==
    /\ CASE call[k].op = "getAllNotes" -> SettleGetAllNotes(k, net, data)
         [] call[k].op = "createNote" -> SettleCreateNote(k, net, data)
         [] call[k].op = "updateNote" -> SettleUpdateNote(k, net, data)
         [] call[k].op = "deleteNote" -> SettleDeleteNote(k, net, data)
    /\ got' = [got EXCEPT ![k].data = data]
    /\ UNCHANGED <<call, outsideShared>>

\* const res = await fetch(...): fetch resolves with a Response
FetchResolves(k) ==
    /\ cpc[k] = "fetch"
    /\ \E status \in Statuses : got' = [got EXCEPT ![k].status = status]
    /\ cpc' = [cpc EXCEPT ![k] = "text"]
    /\ UNCHANGED <<tokenStore, cacheStore, call, timer, out, lastList, owned, outsideShared>>

\* const text = await res.text(); the body is read, parsed, res.ok tested
TextResolves(k) ==
    /\ cpc[k] = "text"
    /\ \E data \in Bodies : Settle(k, Parsed(got[k].status, data), data)

\* fetch or res.text() rejects: the network failed
Rejects(k) ==
    /\ cpc[k] \in {"fetch", "text"}
    /\ Settle(k, "rejected", NullData)

\* the timer fires while the request is pending: controller.abort() makes
\* the pending fetch or res.text() reject
Timeout(k) ==
    /\ cpc[k] \in {"fetch", "text"}
    /\ timer[k] = "armed"
    /\ Settle(k, "timeout", NullData)

\* the caller has taken the result
Release(k) ==
    /\ cpc[k] = "ended"
    /\ cpc' = [cpc EXCEPT ![k] = "idle"]
    /\ call' = [call EXCEPT ![k] = NoCall]
    /\ timer' = [timer EXCEPT ![k] = "none"]
    /\ got' = [got EXCEPT ![k] = NoGot]
    /\ out' = [out EXCEPT ![k] = NoOut]
    /\ UNCHANGED <<tokenStore, cacheStore, lastList, owned, outsideShared>>

\* the calls of one page, made in the given slots, against an arbitrary
\* network
NextSharedIn(slots) ==
    \E k \in slots :
        \/ getAllNotes(k) /\ UNCHANGED pageVars
        \/ createNote(k) /\ UNCHANGED pageVars
        \/ updateNote(k) /\ UNCHANGED pageVars
        \/ deleteNote(k) /\ UNCHANGED pageVars
        \/ FetchResolves(k) /\ UNCHANGED pageVars
        \/ TextResolves(k) /\ UNCHANGED pageVars
        \/ Rejects(k) /\ UNCHANGED pageVars
        \/ Timeout(k) /\ UNCHANGED pageVars
        \/ Release(k) /\ UNCHANGED pageVars

SpecShared == Init /\ [][NextSharedIn(Calls)]_vars

---------------------------------------------------------------------------
(* Vocabulary of the client properties *)

\* this step ends a call of op in slot k
Ends(k, op) == cpc[k] # "ended" /\ cpc'[k] = "ended" /\ call'[k].op = op

\* the API request of the call that has ended failed: network error,
\* timeout, a status outside 2xx, or a body that is not JSON
Failures == {"rejected", "timeout", "status", "malformed"}

---------------------------------------------------------------------------
---------------------------------------------------------------------------
\* this step starts a call of op in slot k
Starts(k, op) == cpc[k] = "idle" /\ cpc'[k] # "idle" /\ call'[k].op = op

\* C14: an updateNote(id) or deleteNote(id) called while the token map has
\* no entry for id sends no request, is over at once, returns null
\* (updateNote) or false (deleteNote), and leaves the token map and the
\* cache as they are; called with an entry it sends the entry's token.
C14_NoTokenNoRequest ==
    [][ \A k \in Calls :
          (Starts(k, "updateNote") \/ Starts(k, "deleteNote")) =>
            IF call'[k].id \notin DOMAIN loadTokens
            THEN /\ ~call'[k].sent
                 /\ timer'[k] = "none"
                 /\ cpc'[k] = "ended"
                 /\ out'[k].kind = "returned"
                 /\ out'[k].note = None /\ out'[k].flag = FALSE
                 /\ tokenStore' = tokenStore /\ cacheStore' = cacheStore
            ELSE /\ call'[k].sent /\ cpc'[k] = "fetch"
                 /\ call'[k].token = loadTokens[call'[k].id]
      ]_vars

\* a deleteNote for a note without a token has returned false without a
\* request, the map holding the token of another note and the cache a list
C14_Witness ==
    \E k \in Calls :
        /\ cpc[k] = "ended" /\ call[k].op = "deleteNote"
        /\ ~call[k].sent /\ out[k].flag = FALSE
        /\ call[k].id \notin DOMAIN loadTokens
        /\ DOMAIN loadTokens # {}
        /\ cachedNotes # <<>>

---------------------------------------------------------------------------
---------------------------------------------------------------------------
\* C16: a createNote, updateNote or deleteNote whose API request fails
\* (network error, timeout, status outside 2xx, body that is not JSON)
\* raises to its caller, returns no note, and the step leaves the token map
\* and the cache as they are; no step of a call changes either item unless
\* it ends a call whose request succeeded.
C16_FailureRaises ==
    [][ /\ \A k \in Calls :
            ( /\ Ends(k, "createNote") \/ Ends(k, "updateNote") \/ Ends(k, "deleteNote")
              /\ out'[k].net \in Failures )
            => /\ out'[k].kind = "raised"
               /\ out'[k].note = None /\ out'[k].flag = FALSE
               /\ tokenStore' = tokenStore /\ cacheStore' = cacheStore
        /\ (tokenStore' # tokenStore \/ cacheStore' # cacheStore) =>
            \E k \in Calls : cpc[k] = "text" /\ cpc'[k] = "ended" /\ out'[k].net = "ok"
      ]_vars

\* a createNote answered with a status outside 2xx has raised, the token
\* map and the cache holding entries of earlier calls
C16_Witness ==
    \E k \in Calls :
        /\ cpc[k] = "ended" /\ call[k].op = "createNote"
        /\ out[k].net = "status" /\ out[k].kind = "raised"
        /\ got[k].data.note # None
        /\ DOMAIN loadTokens # {}
        /\ cachedNotes # <<>>

---------------------------------------------------------------------------
\* one call at a time; a timer that has been set and not cleared fires
SpecSharedLive ==
    /\ Init
    /\ [][NextSharedIn({"k1"})]_vars
    /\ WF_vars(Timeout("k1") /\ UNCHANGED pageVars)

Pending(k) == cpc[k] \in {"fetch", "text"}

\* C17: the timer of a call is set exactly while its request is pending,
\* and every pending call ends, whatever the network does (the timer fires
\* if nothing else ends it); a call ended by the timeout has returned a list
\* (getAllNotes) or raised (createNote, updateNote, deleteNote), and once a
\* call has ended its timer is cleared if it was set.
C17_EveryCallEnds ==
    /\ \A k \in Calls : Pending(k) ~> cpc[k] = "ended"
    /\ [](\A k \in Calls :
            /\ timer[k] = "armed" <=> Pending(k)
            /\ cpc[k] = "ended" =>
                /\ timer[k] = IF call[k].sent THEN "cleared" ELSE "none"
                /\ out[k].net = "timeout" =>
                    out[k].kind = IF call[k].op = "getAllNotes"
                                  THEN "returned" ELSE "raised")

\* a deleteNote has been ended by the timeout while the body of a Response
\* was awaited, and has raised
C17_Witness ==
    \E k \in Calls :
        /\ cpc[k] = "ended" /\ call[k].op = "deleteNote"
        /\ out[k].net = "timeout" /\ out[k].kind = "raised"
        /\ got[k].status = 200
        /\ timer[k] = "cleared"

---------------------------------------------------------------------------
\* the request of c is about to write the index
WritesIndex(c) == pc[c] \in {"post_set_index", "delete_set_index"}

\* C18: POST and DELETE requests of two clients interleaved at their store
\* operations: the index changes only by the write of a POST or DELETE, and
\* the value written holds only ids of the index that request read (and the
\* new id first, for a POST; not the deleted id, for a DELETE), whatever the
\* index holds at the write. So an id that entered the index after the read
\* is dropped by the write, and an id removed after the read comes back.
C18_LastIndexWriterWins ==
    [][ /\ \A c \in Clients :
            (WritesIndex(c) /\ pc'[c] = "done") =>
                LET read == Range(loc[c].indexArray) IN
                    IF req[c].method = "POST"
                    THEN /\ Head(index'.ids) = loc[c].note[1].id
                         /\ Range(index'.ids) \subseteq read \cup {loc[c].note[1].id}
                         /\ resp'[c].status = 200 /\ resp'[c].ok
                    ELSE /\ Range(index'.ids) = read \ {req[c].body.id}
                         /\ resp'[c].status = 200 /\ resp'[c].ok
        /\ index' # index => \E c \in Clients : WritesIndex(c) /\ pc'[c] = "done"
      ]_vars

\* a POST and a DELETE of different clients have both been answered ok, a
\* created note is stored but not in the index although the index is not
\* full, and an id whose DELETE was answered ok is in the index
C18_Witness ==
    \E c, d \in Clients :
        /\ Finished(c, "POST") /\ resp[c].status = 200 /\ resp[c].ok
        /\ Finished(d, "DELETE") /\ resp[d].status = 200 /\ resp[d].ok
        /\ resp[c].note[1].id \in DOMAIN notes
        /\ resp[c].note[1].id \notin Range(index.ids)
        /\ Len(index.ids) < MAX_NOTES
        /\ \E id \in gone : id \in Range(index.ids) /\ id \notin DOMAIN notes

---------------------------------------------------------------------------
(* The local-fallback client *)

\* getLocalNotes(): the parsed item, [] when there is none
getLocalNotes == IF localStore = None THEN <<>> ELSE localStore[1]

\* saveLocalNotes(notes): the item after localStorage.setItem
saveLocalNotes(list) == Some(list)

\* requestJson: a status outside 2xx throws, 204 gives null, else the body
\* is parsed, which throws on text that is not JSON
requestJson(answer) ==
    IF answer.status \notin 200..299 THEN "status"
    ELSE IF answer.status = 204 THEN "ok"
    ELSE IF answer.body = NotJson THEN "malformed"
    ELSE "ok"

\* mutant: the note of the server is not looked at
serverNote_ignored(net, body) == None

\* result && result.note, after a requestJson that did not throw
serverNote(net, body) == IF net = "ok" THEN body.note ELSE None

\* payload && Array.isArray(payload.notes), after a requestJson that did
\* not throw
serverNotes(net, body) == IF net = "ok" THEN body.notes ELSE None

\* content.trim() and imageDataUrl || null
localPayload(content, imageDataUrl) ==
    [content |-> Trim(content),
     imageDataUrl |-> IF imageDataUrl # None /\ imageDataUrl[1] # <<>>
                      THEN imageDataUrl ELSE None]

\* const localNote = { id, content, imageDataUrl, createdAt: now, updatedAt: now }
localNote(id, payload) ==
    [id |-> id, content |-> payload.content, imageDataUrl |-> payload.imageDataUrl,
     createdAt |-> now, updatedAt |-> now]

\* mutant: the note is pushed at the end
unshift_pushed(list, note) == list \o <<note>>

\* notes.unshift(localNote)
unshift(list, note) == <<note>> \o list

\* notes.findIndex(note => note.id === id), 0 for -1
findIndex(list, id) ==
    IF \E i \in 1..Len(list) : list[i].id = id
    THEN CHOOSE i \in 1..Len(list) :
            list[i].id = id /\ \A j \in 1..(i - 1) : list[j].id # id
    ELSE 0

\* { ...notes[index], content, imageDataUrl, updatedAt: Date.now() }
localUpdated(note, payload) ==
    [note EXCEPT !.content = payload.content,
                 !.imageDataUrl = payload.imageDataUrl,
                 !.updatedAt = now]

\* notes.filter(note => note.id !== id)
filterOut(list, id) == SelectSeq(list, LAMBDA n : n.id # id)

\* a call starts: the request is sent
LocalStart(op, id, content, imageDataUrl) ==
    /\ lpc = "idle"
    /\ lcall' = [op |-> op, id |-> id, content |-> content, imageDataUrl |-> imageDataUrl]
    /\ lpc' = "fetch"
    /\ UNCHANGED <<localStore, lgot, lout, lmade, outsideLocal>>

localGetAllNotes == LocalStart("getAllNotes", 0, <<>>, None)

\* (a note can be created locally as long as local ids are left)
localCreateNote ==
    /\ lmade < MaxLocalNotes
    /\ \E p \in LocalPayloads : LocalStart("createNote", 0, p[1], p[2])

localUpdateNote ==
    \E id \in CalledIds, p \in LocalPayloads : LocalStart("updateNote", id, p[1], p[2])

localDeleteNote ==
    \E id \in CalledIds : LocalStart("deleteNote", id, <<>>, None)

\* the call is over
LocalEnd(o) ==
    /\ lpc' = "ended"
    /\ lout' = o

\* getAllNotes after requestJson: the notes of the server if the payload
\* has an array of them, else (also after a throw) getLocalNotes()
LocalSettleGetAllNotes(net, body) ==
    /\ LocalEnd(Returned(net, IF serverNotes(net, body) # None
                              THEN serverNotes(net, body)[1] ELSE getLocalNotes,
                         None, FALSE))
    /\ UNCHANGED <<localStore, lmade>>

\* createNote after requestJson: the note of the server if the result has
\* one, else (also after a throw) a local note is put first in the local
\* notes and returned
LocalSettleCreateNote(net, body) ==
    IF serverNote(net, body) # None
    THEN /\ LocalEnd(Returned(net, <<>>, serverNote(net, body), FALSE))
         /\ UNCHANGED <<localStore, lmade>>
    ELSE LET note == localNote(10 + lmade + 1,
                               localPayload(lcall.content, lcall.imageDataUrl))
         IN /\ localStore' = saveLocalNotes(unshift(getLocalNotes, note))
            /\ lmade' = lmade + 1
            /\ LocalEnd(Returned(net, <<>>, Some(note), FALSE))

\* updateNote after requestJson: the note of the server if the result has
\* one, else (also after a throw) the local note with that id is updated and
\* returned, null if there is none
LocalSettleUpdateNote(net, body) ==
    LET list == getLocalNotes
        i == findIndex(list, lcall.id)
        updated == localUpdated(list[i], localPayload(lcall.content, lcall.imageDataUrl))
    IN IF serverNote(net, body) # None
       THEN /\ LocalEnd(Returned(net, <<>>, serverNote(net, body), FALSE))
            /\ UNCHANGED <<localStore, lmade>>
       ELSE IF i = 0
       THEN /\ LocalEnd(Returned(net, <<>>, None, FALSE))
            /\ UNCHANGED <<localStore, lmade>>
       ELSE /\ localStore' = saveLocalNotes([list EXCEPT ![i] = updated])
            /\ LocalEnd(Returned(net, <<>>, Some(updated), FALSE))
            /\ UNCHANGED lmade

\* deleteNote after requestJson: true if it did not throw, else the local
\* note with that id is removed; false if there is none
LocalSettleDeleteNote(net, body) ==
    LET list == getLocalNotes
        filtered == filterOut(list, lcall.id)
    IN IF net = "ok"
       THEN /\ LocalEnd(Returned(net, <<>>, None, TRUE))
            /\ UNCHANGED <<localStore, lmade>>
       ELSE IF Len(filtered) = Len(list)
       THEN /\ LocalEnd(Returned(net, <<>>, None, FALSE))
            /\ UNCHANGED <<localStore, lmade>>
       ELSE /\ localStore' = saveLocalNotes(filtered)
            /\ LocalEnd(Returned(net, <<>>, None, TRUE))
            /\ UNCHANGED lmade

LocalSettle(net, body) ==
    /\ CASE lcall.op = "getAllNotes" -> LocalSettleGetAllNotes(net, body)
         [] lcall.op = "createNote" -> LocalSettleCreateNote(net, body)
         [] lcall.op = "updateNote" -> LocalSettleUpdateNote(net, body)
         [] lcall.op = "deleteNote" -> LocalSettleDeleteNote(net, body)
    /\ UNCHANGED <<lcall, outsideLocal>>

\* fetch resolves with a Response and requestJson reads it
LocalResolves ==
    /\ lpc = "fetch"
    /\ \E answer \in LocalAnswers :
        /\ lgot' = answer
        /\ LocalSettle(requestJson(answer), answer.body)

\* fetch rejects: the network failed
LocalRejects ==
    /\ lpc = "fetch"
    /\ lgot' = NoAnswer
    /\ LocalSettle("rejected", NoBody)

\* the caller has taken the result
LocalRelease ==
    /\ lpc = "ended"
    /\ lpc' = "idle"
    /\ lcall' = NoLocalCall
    /\ lgot' = NoAnswer
    /\ lout' = NoOut
    /\ UNCHANGED <<localStore, lmade, outsideLocal>>

\* one call at a time against an arbitrary network, while time passes
NextLocal ==
    \/ Tick
    \/ localGetAllNotes \/ localCreateNote \/ localUpdateNote \/ localDeleteNote
    \/ LocalResolves \/ LocalRejects
    \/ LocalRelease

SpecLocal == Init /\ [][NextLocal]_vars

---------------------------------------------------------------------------
\* this step ends the call of op of the local-fallback client
LocalEnds(op) == lpc = "fetch" /\ lpc' = "ended" /\ lcall.op = op

---------------------------------------------------------------------------
\* the answer is 2xx with the body the operation looks for: an object with
\* an array of notes (getAllNotes), with a note (createNote, updateNote);
\* anything requestJson returns from (deleteNote)
WellFormed(op, answer) ==
    /\ answer.status \in 200..299
    /\ IF op = "getAllNotes" THEN answer.body.kind = "object" /\ answer.body.notes # None
       ELSE IF op = "deleteNote" THEN answer.status = 204 \/ answer.body.kind # "malformed"
       ELSE answer.body.kind = "object" /\ answer.body.note # None

\* C20: a call of the local-fallback client whose API request is answered
\* 2xx with a well-formed body returns the data of the server (the notes,
\* the note, true for deleteNote) whatever the local notes are, and leaves
\* the local notes as they are; the local notes change only in a step that
\* ends a call whose request was not so answered.
C20_ServerFirst ==
    [][ /\ \A op \in {"getAllNotes", "createNote", "updateNote", "deleteNote"} :
            (LocalEnds(op) /\ WellFormed(op, lgot')) =>
                /\ localStore' = localStore
                /\ lout'.kind = "returned"
                /\ op = "getAllNotes" => lout'.list = lgot'.body.notes[1]
                /\ op \in {"createNote", "updateNote"} => lout'.note = lgot'.body.note
                /\ op = "deleteNote" => lout'.flag
        /\ localStore' # localStore =>
                /\ lpc = "fetch" /\ lpc' = "ended"
                /\ ~WellFormed(lcall.op, lgot')
      ]_vars

\* an updateNote for a note that is in the local notes has been answered
\* with a note by the server and has returned that note, the local note
\* staying as it was
C20_Witness ==
    /\ lpc = "ended" /\ lcall.op = "updateNote"
    /\ lgot.status = 200 /\ lgot.body.note # None
    /\ lout.note = lgot.body.note
    /\ findIndex(getLocalNotes, lcall.id) # 0
    /\ getLocalNotes[findIndex(getLocalNotes, lcall.id)].content
            # Trim(lcall.content)

---------------------------------------------------------------------------
ValidationErrors == {"Empty note.", "Note is too long.", "Image is too large."}

\* the PUT of c named a stored note with a token that is not the note's
WrongToken(c) ==
    /\ Addressed(c)
    /\ req[c].body.id \in DOMAIN pre[c].notes
    /\ pre[c].notes[req[c].body.id].editToken # req[c].body.token

\* C21: requests handled one at a time: a PUT without id or token is answered
\* 400 "Missing id/token."; otherwise one whose id has no note record 404,
\* whatever the token and the body; otherwise one whose token is not the
\* note's 403, whatever the body (empty and oversized included); otherwise one
\* whose content or image is not acceptable 400 with the validation error;
\* otherwise 200.  A validation error is reported to the token holder only.
C21_PutStatusOrder ==
    \A c \in Clients :
        Finished(c, "PUT") =>
            /\ resp[c].status =
                  IF ~Addressed(c) THEN 400
                  ELSE IF req[c].body.id \notin DOMAIN pre[c].notes THEN 404
                  ELSE IF WrongToken(c) THEN 403
                  ELSE IF ~Acceptable(req[c].body) THEN 400
                  ELSE 200
            /\ ~Addressed(c) => resp[c].error = "Missing id/token."
            /\ resp[c].error \in ValidationErrors <=>
                    (Authorised(c) /\ ~Acceptable(req[c].body))
            /\ resp[c].status # 200 => StoreUntouched(c)

\* a PUT with another note's token and oversized content was answered 403
C21_Witness ==
    \E c \in Clients :
        /\ Finished(c, "PUT") /\ WrongToken(c)
        /\ Oversized(req[c].body)
        /\ req[c].body.token \in { pre[c].notes[k].editToken : k \in DOMAIN pre[c].notes }
        /\ resp[c].status = 403 /\ resp[c].error = "Forbidden."

---------------------------------------------------------------------------
\* the ids the index lists that have no note record
Dangling == Range(index.ids) \ DOMAIN notes

\* no request is being handled
AtRest == \A c \in Clients : pc[c] \in {"idle", "done"}

\* C23: requests handled one at a time, each to completion: after every
\* request each id in the index has a note record.  A POST has written its
\* note record when it reads and writes the index; the only ids the index
\* lists without a record are those of a DELETE that has deleted the record
\* and not yet written the index.
C23_IndexedNotesExist ==
    /\ AtRest => Dangling = {}
    /\ \A c \in Clients :
        pc[c] \in {"post_get_index", "post_set_index"} =>
            loc[c].note[1].id \in DOMAIN notes
    /\ Dangling \subseteq
            { req[c].body.id :
                c \in { d \in Clients : pc[d] \in {"delete_get_index", "delete_set_index"} } }

\* a DELETE has taken its id out of an index that lists another note, and a
\* note dropped from the index by the cap still has its record
C23_Witness ==
    \E c \in Clients :
        /\ Finished(c, "DELETE") /\ resp[c].status = 200
        /\ req[c].body.id \in Range(pre[c].index.ids)
        /\ index.ids # <<>>
        /\ Dangling = {}
        /\ DOMAIN notes \ Range(index.ids) # {}

---------------------------------------------------------------------------
\* the note of id has a record and the index does not list it
Unlisted(ns, idx, id) == id \in DOMAIN ns /\ id \notin Range(idx.ids)

\* id was generated by a POST that has written its index entry
Settled(id) ==
    /\ id \in 1..made
    /\ \A c \in Clients : Creating(c) => loc[c].note[1].id # id

\* the POST of c writes the index, having read a full one
CapStep(c) ==
    /\ pc[c] = "post_set_index" /\ pc'[c] = "done"
    /\ Len(loc[c].indexArray) = MAX_NOTES

---------------------------------------------------------------------------
\* C22: requests of all four methods interleaved at their store reads and
\* writes: a GET that arrived after a DELETE with the note's token had been
\* answered ok lists no note with the id of that DELETE.
C22_DeletedNeverListed ==
    \A c \in Clients :
        Finished(c, "GET") => \A n \in Range(resp[c].list) : n.id \notin pre[c].gone

---------------------------------------------------------------------------
(* The shared-only client against the handler: one page creating and        *)
(* deleting notes, its requests handled by the function one at a time.  A   *)
(* request is lost, or is handled whether or not the page still waits for   *)
(* the answer; the page makes its next call when the function is done with  *)
(* the request before.                                                      *)

Page == "k1"
Function == "c1"

\* JSON.stringify(data) in json(), then JSON.parse(text) in apiRequest: an
\* array stays an array, an object keeps the keys it was built with
DataOf(r) ==
    IF r.status = 200 /\ ~r.ok /\ r.error = "" THEN ArrayData(r.list)
    ELSE ObjectData(r.ok, r.note, r.token, r.error)

\* the body apiRequest sends for the call: JSON.stringify({ id, token })
SentBody(k) == Body(call[k].id, call[k].token, None, None)

\* the request of the pending call reaches the function
Deliver(k, c) ==
    /\ cpc[k] = "fetch"
    /\ \/ call[k].op = "createNote" /\ PostBegin(c, TRUE, FALSE)
       \/ /\ call[k].op = "deleteNote"
          /\ DeleteBegin(c, TRUE)
          /\ req'[c].body = SentBody(k)

\* fetch resolves with the Response of the handler
Respond(k, c) ==
    /\ cpc[k] = "fetch"
    /\ pc[c] = "done"
    /\ got' = [got EXCEPT ![k].status = resp[c].status]
    /\ cpc' = [cpc EXCEPT ![k] = "text"]
    /\ UNCHANGED <<tokenStore, cacheStore, call, timer, out, lastList, owned, outsideShared>>

\* res.text() resolves with the body the handler wrote
ReadBody(k, c) ==
    /\ cpc[k] = "text"
    /\ pc[c] = "done"
    /\ Settle(k, Parsed(got[k].status, DataOf(resp[c])), DataOf(resp[c]))

\* the invocation is over once the page no longer waits for it
Close(k, c) ==
    /\ cpc[k] = "ended"
    /\ Finish(c, TRUE)

NextEndToEnd ==
    \/ createNote(Page) /\ UNCHANGED pageVars
    \/ deleteNote(Page) /\ UNCHANGED pageVars
    \/ Deliver(Page, Function)
    \/ PostSetNote(Function) \/ PostGetIndex(Function) \/ PostSetIndex(Function)
    \/ DeleteNote(Function) \/ DeleteGetIndex(Function) \/ DeleteSetIndex(Function)
    \/ Respond(Page, Function) /\ UNCHANGED pageVars
    \/ ReadBody(Page, Function) /\ UNCHANGED pageVars
    \/ Rejects(Page) /\ UNCHANGED pageVars
    \/ Timeout(Page) /\ UNCHANGED pageVars
    \/ Close(Page, Function)
    \/ pc[Function] = "idle" /\ Release(Page) /\ UNCHANGED pageVars

SpecEndToEnd == Init /\ [][NextEndToEnd]_vars

---------------------------------------------------------------------------
\* this step ends the deleteNote call of the page with the answer read
Answered(k) == cpc[k] = "text" /\ Ends(k, "deleteNote") /\ out'[k].net \notin {"rejected", "timeout"}

---------------------------------------------------------------------------
(* The path-based handler.  Its requests are handled one at a time; a       *)
(* request is taken up in the step of its first store operation, or of its  *)
(* answer when it is answered without one.                                  *)

\* the outcome of normalizePayload: the payload, or the message of the Error
\* it throws
Normalized(content, imageDataUrl) ==
    [error |-> "", content |-> content, imageDataUrl |-> imageDataUrl]

Threw(message) == [error |-> message, content |-> <<>>, imageDataUrl |-> None]

\* normalizePayload(payload) for a JSON body; an empty string is falsy
normalizePayload(body) ==
    LET content == IF body[2] = None THEN <<>> ELSE Trim(body[2][1])
        imageDataUrl == body[3]
        noImage == imageDataUrl = None \/ imageDataUrl = Some(<<>>)
    IN IF content = <<>> /\ noImage THEN Threw("Content or image is required.")
       ELSE IF ~noImage /\ Len(imageDataUrl[1]) > MAX_IMAGE_DATA_URL_LENGTH
            THEN Threw("Image is too large. Please choose a smaller image.")
       ELSE Normalized(content, imageDataUrl)

\* normalizePayload(await request.json()): request.json() rejects with a
\* SyntaxError when the body is not JSON
Payload(body) ==
    IF body = NotJsonBody THEN Threw("Unexpected token in JSON.")
    ELSE normalizePayload(body)

\* catch (error) { return json({ error: error.message || ... }, 500) }
Caught(message) ==
    PathResp(500, IF message = "" THEN "Internal server error." ELSE message, None, None)

\* loadNotes(): Array.isArray(notes) ? notes : []
loadNotes == IF blob = None THEN <<>> ELSE blob[1]

\* saveNotes(notes): the value under NOTES_KEY after store.setJSON
saveNotes(list) == Some(list)

\* const newNote = { id, content, imageDataUrl, createdAt: now, updatedAt: now }
newNote(id, payload) ==
    [id |-> id, content |-> payload.content, imageDataUrl |-> payload.imageDataUrl,
     createdAt |-> now, updatedAt |-> now]

\* notes.findIndex(note => note.id === noteId), 0 for -1
indexOfNote(list, noteId) ==
    IF \E i \in 1..Len(list) : list[i].id = noteId
    THEN CHOOSE i \in 1..Len(list) :
            list[i].id = noteId /\ \A j \in 1..(i - 1) : list[j].id # noteId
    ELSE 0

\* const updatedNote = { ...notes[index], content, imageDataUrl, updatedAt: Date.now() }
updatedNote(note, payload) ==
    [note EXCEPT !.content = payload.content,
                 !.imageDataUrl = payload.imageDataUrl,
                 !.updatedAt = now]

\* notes.filter(note => note.id !== noteId)
filtered(list, noteId) == SelectSeq(list, LAMBDA n : n.id # noteId)

PathArrive(method, id, body) ==
    /\ hpc = "idle"
    /\ hreq' = PathReq(method, id, body)
    /\ hpre' = blob

PathReturn(r) ==
    /\ hresp' = r
    /\ hpc' = "done"

\* GET: return json({ notes })
PathGet ==
    /\ PathArrive("GET", 0, <<>>)
    /\ PathReturn(PathResp(200, "", None, Some(loadNotes)))
    /\ UNCHANGED <<blob, hloc, hmade, outsidePath>>

\* POST up to notes.unshift(newNote); the note id is one never generated
PathPostBegin ==
    \E body \in PathBodies :
      LET payload == Payload(body) IN
        /\ PathArrive("POST", 0, body)
        /\ IF payload.error # ""
           THEN PathReturn(Caught(payload.error)) /\ UNCHANGED <<hloc, hmade>>
           ELSE /\ hmade < MaxPathNotes
                /\ hmade' = hmade + 1
                /\ LET note == newNote(hmade + 1, payload) IN
                    hloc' = [hloc EXCEPT !.note = Some(note),
                                         !.notes = <<note>> \o loadNotes]
                /\ hpc' = "post_save"
                /\ UNCHANGED hresp
        /\ UNCHANGED <<blob, outsidePath>>

\* await saveNotes(notes); return json({ note: newNote }, 201)
PathPostSave ==
    /\ hpc = "post_save"
    /\ blob' = saveNotes(hloc.notes)
    /\ PathReturn(PathResp(201, "", hloc.note, None))
    /\ UNCHANGED <<hreq, hloc, hpre, hmade, outsidePath>>

\* PUT up to notes[index] = updatedNote
PathPutBegin ==
    \E id \in {0} \cup PathIds, body \in PathBodies :
      LET payload == Payload(body)
          index_ == indexOfNote(loadNotes, id)
      IN
        /\ PathArrive("PUT", id, body)
        /\ IF id = 0
           THEN PathReturn(PathResp(400, "Note ID is required.", None, None))
                /\ UNCHANGED hloc
           ELSE IF payload.error # ""
           THEN PathReturn(Caught(payload.error)) /\ UNCHANGED hloc
           ELSE IF index_ = 0
           THEN PathReturn(PathResp(404, "Note not found.", None, None))
                /\ UNCHANGED hloc
           ELSE /\ LET note == updatedNote(loadNotes[index_], payload) IN
                    hloc' = [hloc EXCEPT !.note = Some(note),
                                         !.notes = [loadNotes EXCEPT ![index_] = note]]
                /\ hpc' = "put_save"
                /\ UNCHANGED hresp
        /\ UNCHANGED <<blob, hmade, outsidePath>>

\* await saveNotes(notes); return json({ note: updatedNote })
PathPutSave ==
    /\ hpc = "put_save"
    /\ blob' = saveNotes(hloc.notes)
    /\ PathReturn(PathResp(200, "", hloc.note, None))
    /\ UNCHANGED <<hreq, hloc, hpre, hmade, outsidePath>>

\* DELETE up to the comparison of the lengths
PathDeleteBegin ==
    \E id \in {0} \cup PathIds :
        /\ PathArrive("DELETE", id, <<>>)
        /\ IF id = 0
           THEN PathReturn(PathResp(400, "Note ID is required.", None, None))
                /\ UNCHANGED hloc
           ELSE IF Len(filtered(loadNotes, id)) = Len(loadNotes)
           THEN PathReturn(PathResp(404, "Note not found.", None, None))
                /\ UNCHANGED hloc
           ELSE /\ hloc' = [hloc EXCEPT !.notes = filtered(loadNotes, id)]
                /\ hpc' = "delete_save"
                /\ UNCHANGED hresp
        /\ UNCHANGED <<blob, hmade, outsidePath>>

\* await saveNotes(filtered); return new Response(null, { status: 204 })
PathDeleteSave ==
    /\ hpc = "delete_save"
    /\ blob' = saveNotes(hloc.notes)
    /\ PathReturn(PathResp(204, "", None, None))
    /\ UNCHANGED <<hreq, hloc, hpre, hmade, outsidePath>>

\* return json({ error: 'Method not allowed.' }, 405)
PathOther ==
    /\ PathArrive("PATCH", 0, <<>>)
    /\ PathReturn(PathResp(405, "Method not allowed.", None, None))
    /\ UNCHANGED <<blob, hloc, hmade, outsidePath>>

\* the Response has been delivered
PathFinish ==
    /\ hpc = "done"
    /\ hpc' = "idle"
    /\ hreq' = NoPathReq
    /\ hloc' = NoPathLoc
    /\ hresp' = NoPathResp
    /\ hpre' = None
    /\ UNCHANGED <<blob, hmade, outsidePath>>

NextPath ==
    \/ Tick
    \/ PathGet
    \/ PathPostBegin \/ PathPostSave
    \/ PathPutBegin \/ PathPutSave
    \/ PathDeleteBegin \/ PathDeleteSave
    \/ PathOther
    \/ PathFinish

SpecPath == Init /\ [][NextPath]_vars

---------------------------------------------------------------------------
PathFinished(method) == hpc = "done" /\ hreq.method = method

\* the body is not JSON, or has neither content (after trimming) nor an
\* image, or an image over the limit
PathInvalid(body) ==
    \/ body = NotJsonBody
    \/ /\ body # NotJsonBody
       /\ \/ /\ body[2] = None \/ Stripped(body[2][1]) = <<>>
             /\ body[3] = None \/ body[3] = Some(<<>>)
          \/ body[3] # None /\ Len(body[3][1]) > MAX_IMAGE_DATA_URL_LENGTH

\* C26: path-based handler: a POST or PUT whose body is not JSON, or has no
\* content and no image, or an image over the limit, is answered 400 and
\* leaves the stored notes as they were.
C26_InvalidBody400 ==
    (PathFinished("POST") \/ PathFinished("PUT")) /\ PathInvalid(hreq.body) =>
        hresp.status = 400 /\ blob = hpre

---------------------------------------------------------------------------
\* C27: path-based handler: a DELETE with the id of no stored note is
\* answered 200 or 204 and leaves the stored notes as they were.
C27_DeleteUnknownSucceeds ==
    ( /\ PathFinished("DELETE") /\ hreq.id # 0
      /\ \A i \in 1..Len(loadJson(hpre, <<>>)) : loadJson(hpre, <<>>)[i].id # hreq.id )
    => hresp.status \in {200, 204} /\ blob = hpre

---------------------------------------------------------------------------
(* The page of the shared-only client: the interval callback and the click  *)
(* handlers.  A handler runs up to its next await in one step: the call it  *)
(* makes starts in the step of the event, and it continues in the step that *)
(* takes the result of the call.  The calls of the click handlers go        *)
(* through one slot, one handler at a time; the render started by the       *)
(* interval callback goes through the other (a request ends or times out    *)
(* before the next tick).                                                   *)

UserCall == "k1"
TickCall == "k2"

\* a handler is about to continue: an awaited call has ended, or the
\* handler stands between resetEditor() and renderNotes(); events are
\* dispatched only when no continuation is pending
Continuing == flow = "render" \/ \E k \in Calls : cpc[k] = "ended"

\* the script has run: the listeners are added, startAutoRefresh() and
\* renderNotes({ force: true }) have been called
Loaded == autoRefreshTimer # 0

\* mutant: the callback renders whether or not a note is being edited
TickRenders_always == TRUE

\* if (!editingNoteId) in the interval callback
TickRenders == editingNoteId = 0

\* if (autoRefreshTimer) clearInterval(autoRefreshTimer)
clearInterval(set, t) == IF t # 0 THEN set \ {t} ELSE set

\* setInterval(...): the id of the new timer, never used before
setInterval == autoRefreshTimer + 1

\* startAutoRefresh()
startAutoRefresh ==
    /\ autoRefreshTimer < MaxTimers
    /\ intervals' = clearInterval(intervals, autoRefreshTimer) \cup {setInterval}
    /\ autoRefreshTimer' = setInterval

\* the script of the page: startAutoRefresh(); renderNotes({ force: true })
Load ==
    /\ ~Loaded
    /\ startAutoRefresh
    /\ getAllNotes(UserCall)
    /\ flow' = "rendering"
    /\ UNCHANGED <<editingNoteId, lastTick>>

\* startAutoRefresh() called once more.  The page calls it on load only;
\* the function is written to be called again.
Restart ==
    /\ Loaded /\ ~Continuing
    /\ startAutoRefresh
    /\ UNCHANGED <<editingNoteId, flow, lastTick, sharedVars, outsideShared>>

\* the callback of an interval timer that is set runs
IntervalTick ==
    /\ ~Continuing
    /\ intervals # {}
    /\ IF TickRenders
       THEN /\ getAllNotes(TickCall)
            /\ lastTick' = "rendered"
       ELSE /\ lastTick' = "skipped"
            /\ UNCHANGED <<sharedVars, outsideShared>>
    /\ UNCHANGED <<editingNoteId, autoRefreshTimer, intervals, flow>>

\* renderNotes of the callback continues after getAllNotes: the list is
\* drawn
TickRenderEnds ==
    /\ cpc[TickCall] = "ended"
    /\ Release(TickCall)
    /\ UNCHANGED pageVars

\* handleEditNote(note), for a note of the list
handleEditNote ==
    /\ Loaded /\ ~Continuing
    /\ \E id \in NoteIds :
        editingNoteId' = IF canEdit(id) THEN id ELSE editingNoteId
    /\ UNCHANGED <<autoRefreshTimer, intervals, flow, lastTick, sharedVars, outsideShared>>

\* handleAddOrUpdateNote() up to await updateNote(...) / await createNote(...);
\* with an empty editor it returns at once
handleAddOrUpdateNote ==
    /\ Loaded /\ ~Continuing
    /\ flow = "none"
    /\ \E filled \in BOOLEAN :
        IF ~filled THEN UNCHANGED vars
        ELSE /\ IF editingNoteId # 0
                THEN updateNote(UserCall) /\ call'[UserCall].id = editingNoteId
                ELSE createNote(UserCall)
             /\ flow' = "save"
             /\ UNCHANGED <<editingNoteId, autoRefreshTimer, intervals, lastTick>>

\* handleAddOrUpdateNote() from the result of the call up to renderNotes;
\* an exception of the call is caught and ends the handler
SaveContinues ==
    /\ flow = "save"
    /\ cpc[UserCall] = "ended"
    /\ Release(UserCall)
    /\ IF out[UserCall].kind = "raised"
       THEN flow' = "none" /\ UNCHANGED editingNoteId
       ELSE /\ flow' = "render"
            /\ editingNoteId' =
                 IF call[UserCall].op = "updateNote" /\ out[UserCall].note # None
                 THEN 0 ELSE editingNoteId
    /\ UNCHANGED <<autoRefreshTimer, intervals, lastTick>>

\* await renderNotes({ force: true }) of a click handler: up to await getAllNotes()
RenderStarts ==
    /\ flow = "render"
    /\ getAllNotes(UserCall)
    /\ flow' = "rendering"
    /\ UNCHANGED <<editingNoteId, autoRefreshTimer, intervals, lastTick>>

\* renderNotes continues after getAllNotes, and the handler that awaited it
\* ends
RenderEnds ==
    /\ flow = "rendering"
    /\ cpc[UserCall] = "ended"
    /\ Release(UserCall)
    /\ flow' = "none"
    /\ UNCHANGED <<editingNoteId, autoRefreshTimer, intervals, lastTick>>

\* handleDeleteNote(noteId) up to await deleteNote(noteId); it returns at
\* once for a note of another browser and when the user does not confirm
handleDeleteNote ==
    /\ Loaded /\ ~Continuing
    /\ flow = "none"
    /\ \E id \in NoteIds, confirmed \in BOOLEAN :
        IF ~canEdit(id) \/ ~confirmed THEN UNCHANGED vars
        ELSE /\ deleteNote(UserCall) /\ call'[UserCall].id = id
             /\ flow' = "delete"
             /\ UNCHANGED <<editingNoteId, autoRefreshTimer, intervals, lastTick>>

\* handleDeleteNote() from the result of deleteNote up to renderNotes
DeleteContinues ==
    /\ flow = "delete"
    /\ cpc[UserCall] = "ended"
    /\ Release(UserCall)
    /\ IF out[UserCall].kind = "raised" \/ ~out[UserCall].flag
       THEN flow' = "none" /\ UNCHANGED editingNoteId
       ELSE /\ flow' = "render"
            /\ editingNoteId' =
                 IF editingNoteId = call[UserCall].id THEN 0 ELSE editingNoteId
    /\ UNCHANGED <<autoRefreshTimer, intervals, lastTick>>

\* the refresh button: renderNotes({ force: true })
RefreshClick ==
    /\ Loaded /\ ~Continuing
    /\ flow = "none"
    /\ getAllNotes(UserCall)
    /\ flow' = "rendering"
    /\ UNCHANGED <<editingNoteId, autoRefreshTimer, intervals, lastTick>>

NextPage ==
    \/ Load \/ Restart
    \/ IntervalTick \/ TickRenderEnds
    \/ handleEditNote
    \/ handleAddOrUpdateNote \/ SaveContinues
    \/ handleDeleteNote \/ DeleteContinues
    \/ RefreshClick \/ RenderStarts \/ RenderEnds
    \/ \E k \in Calls :
        \/ FetchResolves(k) /\ UNCHANGED pageVars
        \/ TextResolves(k) /\ UNCHANGED pageVars
        \/ Rejects(k) /\ UNCHANGED pageVars
        \/ Timeout(k) /\ UNCHANGED pageVars

SpecPage == Init /\ [][NextPage]_vars

---------------------------------------------------------------------------
\* this step starts the call of a render in the slot of the interval callback
TickFetches == cpc[TickCall] = "idle" /\ cpc'[TickCall] # "idle"

\* C28: the page with its click handlers and calls under way: a run of the
\* interval callback starts a getAllNotes (the fetch and the redrawing of
\* the list) exactly when editingNoteId is null; while editingNoteId is set
\* it changes nothing of the page's calls and storage.  At any time at most
\* one interval timer is set, the one autoRefreshTimer names.
C28_RefreshSkipsWhileEditing ==
    /\ [][ /\ TickFetches =>
                /\ editingNoteId = 0
                /\ intervals # {}
                /\ call'[TickCall].op = "getAllNotes" /\ call'[TickCall].sent
                /\ lastTick' = "rendered"
           /\ (lastTick' = "skipped" /\ lastTick # "skipped") =>
                /\ editingNoteId # 0
                /\ sharedVars' = sharedVars
           /\ (lastTick' = "rendered" /\ lastTick # "rendered") => TickFetches
      ]_vars
    /\ [](/\ Cardinality(intervals) <= 1
          /\ intervals = IF autoRefreshTimer = 0 THEN {} ELSE {autoRefreshTimer})

\* the callback has run and done nothing while a note is being edited, the
\* timer having been set anew, a render of an earlier tick being drawn since
C28_Witness ==
    /\ lastTick = "skipped"
    /\ editingNoteId # 0
    /\ cpc[TickCall] = "idle"
    /\ lastList # <<>>
    /\ autoRefreshTimer = MaxTimers /\ intervals = {MaxTimers}

============================================================================
